---- MODULE Spec2Model ----
(***************************************************************************)
(* Model of the recipe import and normalisation pipeline of recipe-app:    *)
(*   - backend/services/parser.js (listed in backend/README.md): URL       *)
(*     import, JSON-LD extraction, HTML fallback, duration parsing, unit   *)
(*     and category normalisation;                                         *)
(*   - frontend/scripts/app.js (handleImportUrl) and                       *)
(*     backend/routes/recipes.js (POST /import): the import request;       *)
(*   - backend/services/recipeTextParser.js: OCR text to recipe;           *)
(*   - scripts/utils.js: unit conversion for display.                      *)
(*                                                                         *)
(* A JavaScript string is a sequence of atoms.  An atom is one character   *)
(* (a digit, a punctuation mark, a space, a single letter) or a whole word *)
(* (a maximal run of letters); what the code reads of a word (its length,  *)
(* its lower-case form) comes from tables over the vocabulary in use.      *)
(***************************************************************************)
EXTENDS Integers, Sequences, FiniteSets, TLC

VARIABLES
    url,          \* parseRecipeFromUrl: the argument
    pc,           \* parseRecipeFromUrl: position in the function body
    html,         \* the fetched page (NoPage before the fetch)
    recipeData,   \* the local recipeData / the value returned
    error,        \* message of the Error thrown ("" when none)
    fetches,      \* number of axios.get calls started
    axiosError,   \* fetchUrl: what axios.get rejected with ("none" if nothing)
    importStatus, \* handleImportUrl: text of #importStatus ("" when unset)
    text,         \* parseRecipeFromText: the argument
    ocr,          \* parseRecipeFromText: outcome (returned record or thrown)
    ingredient,   \* convertIngredient: the ingredient argument
    targetSystem, \* convertIngredient: the targetSystem argument
    converted,    \* convertIngredient: the value returned
    unitToken,    \* normalizeUnit: the argument
    urlUnit,      \* normalizeUnit of parser.js: the value returned
    ocrUnit,      \* normalizeUnit of recipeTextParser.js: the value returned
    category,     \* mapCategory: the argument
    mapped,       \* mapCategory: the value returned
    db,           \* the SQLite database: the rows of its five tables
    calls,        \* the calls of Recipe.create / Recipe.update in progress
    stored,       \* the ingredients of the stored recipe
    currentUnitSystem, \* the unit system of the page
    localStorage, \* the localStorage item preferredUnitSystem
    lastToggle,   \* the system of the most recent toggle, "" before the first
    view,         \* the recipe detail modal: fetched and shown ingredients
    form,         \* the rows of the edit form, Null when it is closed
    updatedAt,    \* how many times the stored recipe was updated
    recipeAppData, \* the recipe list under the localStorage key recipeAppData
    deleted       \* ids deleted and not added again since (history)

vars == <<url, pc, html, recipeData, error, fetches, axiosError,
          importStatus, text, ocr,
          ingredient, targetSystem, converted,
          unitToken, urlUnit, ocrUnit, category, mapped,
          db, calls,
          stored, currentUnitSystem, localStorage, lastToggle, view, form,
          updatedAt,
          recipeAppData, deleted>>

urlVars == <<url, pc, html, recipeData, error, fetches, axiosError,
            importStatus>>
ocrVars == <<text, ocr>>
convVars == <<ingredient, targetSystem, converted>>
normVars == <<unitToken, urlUnit, ocrUnit>>
catVars == <<category, mapped>>
dbVars == <<db, calls>>
uiVars ==
    <<stored, currentUnitSystem, localStorage, lastToggle, view, form,
      updatedAt>>
lsVars == <<recipeAppData, deleted>>
appVars == <<dbVars, uiVars, lsVars>>

(***************************************************************************)
(* Bounds of the model.                                                    *)
(***************************************************************************)
MaxTags == 2      \* application/ld+json script tags in a page
MaxItems == 1     \* members of an "@graph" array or of a top-level array
MaxLines == 3     \* lines of an OCR text (after a fixed opening, if any)

(***************************************************************************)
(* JavaScript values.                                                      *)
(***************************************************************************)
\* the value a call has returned; NoResult before it returns
NoResult == [done |-> FALSE, value |-> <<>>]
Result(v) == [done |-> TRUE, value |-> v]

\* the database before any statement, and no call of the Recipe model
EmptyDb ==
    [recipes |-> {}, ingredients |-> <<>>, instructions |-> <<>>,
     tags |-> {}, recipe_tags |-> {}]
NoCalls == <<>>

\* localStorage.getItem(key) of a key that is not stored
NoItem == "<null>"

\* an absent recipeCategory
NoCategory == [kind |-> "absent", chars |-> <<>>, items |-> <<>>]

Undefined == "<undefined>"
Null == [null |-> TRUE]

Digits == {"0", "1", "2", "3", "4", "5", "6", "7", "8", "9"}

DigitVal(c) ==
    CASE c = "0" -> 0 [] c = "1" -> 1 [] c = "2" -> 2 [] c = "3" -> 3
      [] c = "4" -> 4 [] c = "5" -> 5 [] c = "6" -> 6 [] c = "7" -> 7
      [] c = "8" -> 8 [] c = "9" -> 9

\* parseInt of a run of digits
RECURSIVE ParseInt(_)
ParseInt(ds) ==
    IF ds = <<>> THEN 0
    ELSE 10 * ParseInt(SubSeq(ds, 1, Len(ds) - 1)) + DigitVal(ds[Len(ds)])

\* a || b on strings: "" and undefined are falsy
Or(a, b) == IF a = Undefined \/ a = "" THEN b ELSE a

\* the end of the run of digits that starts at i (i - 1 when s[i] is no digit)
RECURSIVE DigitRunEnd(_, _)
DigitRunEnd(s, i) ==
    IF i <= Len(s) /\ s[i] \in Digits THEN DigitRunEnd(s, i + 1) ELSE i - 1

(***************************************************************************)
(* Duration Parser: parseTime.  A duration field is absent, a string or a  *)
(* value of another type (a number).                                       *)
(***************************************************************************)
NoDuration == [kind |-> "absent", chars |-> <<>>]
Dur(s) == [kind |-> "string", chars |-> s]
NumDuration == [kind |-> "number", chars |-> <<>>]

\* duration.match(/(\d+)X/): the first run of digits directly followed by
\* the letter X, as a number; 0 when there is no match.
RECURSIVE MatchNumberBefore(_, _, _)
MatchNumberBefore(s, letter, i) ==
    IF i > Len(s) THEN 0
    ELSE IF s[i] \in Digits
         THEN LET e == DigitRunEnd(s, i)
              IN  IF e < Len(s) /\ s[e + 1] = letter
                  THEN ParseInt(SubSeq(s, i, e))
                  ELSE MatchNumberBefore(s, letter, e + 1)
         ELSE MatchNumberBefore(s, letter, i + 1)

parseTime(duration) ==
    IF duration.kind # "string" \/ duration.chars = <<>> THEN 0
    ELSE LET hours == MatchNumberBefore(duration.chars, "H", 1)
             minutes == MatchNumberBefore(duration.chars, "M", 1)
         IN  hours * 60 + minutes

(***************************************************************************)
(* parseServings.  recipeYield is absent, a number or a string.            *)
(***************************************************************************)
NoYield == [kind |-> "absent", num |-> 0, chars |-> <<>>]
NumYield(n) == [kind |-> "number", num |-> n, chars |-> <<>>]
StrYield(s) == [kind |-> "string", num |-> 0, chars |-> s]

\* yield_.toString().match(/\d+/): the first run of digits
RECURSIVE FirstNumber(_, _)
FirstNumber(s, i) ==
    IF i > Len(s) THEN 0
    ELSE IF s[i] \in Digits THEN ParseInt(SubSeq(s, i, DigitRunEnd(s, i)))
    ELSE FirstNumber(s, i + 1)

parseServings(yield) ==
    IF yield.kind = "absent" THEN 0
    ELSE IF yield.kind = "number" THEN yield.num
    ELSE IF yield.chars = <<>> THEN 0
    ELSE FirstNumber(yield.chars, 1)

(***************************************************************************)
(* JSON-LD documents.  The content of a script tag is malformed JSON, the  *)
(* JSON value null, a JSON object (with its own fields, and an "@graph"    *)
(* array or none) or a JSON array of objects.                              *)
(***************************************************************************)
Item(type, name, u, prep, cook, total, yield) ==
    [type |-> type, name |-> name, url |-> u, prepTime |-> prep,
     cookTime |-> cook, totalTime |-> total, recipeYield |-> yield]

NoFields == Item(Undefined, Undefined, Undefined, NoDuration, NoDuration,
                 NoDuration, NoYield)

Malformed == [kind |-> "malformed", self |-> NoFields, hasGraph |-> FALSE,
              items |-> <<>>]
NullDoc == [kind |-> "null", self |-> NoFields, hasGraph |-> FALSE,
            items |-> <<>>]
ObjectDoc(self) == [kind |-> "object", self |-> self, hasGraph |-> FALSE,
                    items |-> <<>>]
GraphDoc(self, g) == [kind |-> "object", self |-> self, hasGraph |-> TRUE,
                      items |-> g]
ArrayDoc(a) == [kind |-> "array", self |-> NoFields, hasGraph |-> FALSE,
                items |-> a]

\* results of the extraction functions
Thrown == [thrown |-> TRUE]

IsRecipeRecord(r) == r # Null /\ r # Thrown

\* array.find(item => item['@type'] === 'Recipe'): the first such member,
\* undefined (here Null) when there is none
RECURSIVE FindRecipe(_, _)
FindRecipe(items, i) ==
    IF i > Len(items) THEN Null
    ELSE IF items[i].type = "Recipe" THEN items[i]
    ELSE FindRecipe(items, i + 1)

\* the object literal extractRecipeFromJsonLd returns
BuildRecipe(recipe) ==
    [title |-> Or(recipe.name, ""),
     prepTime |-> parseTime(recipe.prepTime),
     cookTime |-> parseTime(recipe.cookTime),
     additionalTime |-> parseTime(recipe.totalTime)
                          - parseTime(recipe.prepTime)
                          - parseTime(recipe.cookTime),
     servings |-> parseServings(recipe.recipeYield),
     sourceUrl |-> Or(recipe.url, "")]

\* the if / else-if chain that selects the Recipe object
SelectRecipe(data) ==
    IF data.hasGraph THEN FindRecipe(data.items, 1)
    ELSE IF data.kind = "array" THEN FindRecipe(data.items, 1)
    ELSE IF data.self.type = "Recipe" THEN data.self
    ELSE Null

\* data is a parsed document; reading a property of null throws a TypeError
extractRecipeFromJsonLd(data) ==
    IF data.kind = "null" THEN Thrown
    ELSE LET recipe == SelectRecipe(data)
         IN  IF recipe = Null THEN Null ELSE BuildRecipe(recipe)

\* one iteration of the .each callback: JSON.parse and the extraction run
\* inside try / catch, which swallows whatever is thrown
TagResult(tag) ==
    IF tag.kind = "malformed" THEN Thrown
    ELSE extractRecipeFromJsonLd(tag)

\* the .each loop from tag i on: `return false` ends it at the first recipe
RECURSIVE EachTag(_, _)
EachTag(tags, i) ==
    IF i > Len(tags) THEN Null
    ELSE LET recipes == TagResult(tags[i])
         IN  IF IsRecipeRecord(recipes) THEN recipes ELSE EachTag(tags, i + 1)

\* parseRecipeFromUrl calls parseJsonLd(html): no source URL is passed on
parseJsonLd(page) == EachTag(page.tags, 1)

(***************************************************************************)
(* HTML Fallback Extractor.  page.titles holds, for each selector of the   *)
(* title cascade in order, the trimmed text of its first match ("" when    *)
(* it matches nothing).                                                    *)
(***************************************************************************)
RECURSIVE FirstNonEmpty(_, _)
FirstNonEmpty(texts, i) ==
    IF i > Len(texts) THEN ""
    ELSE IF texts[i] # "" THEN texts[i]
    ELSE FirstNonEmpty(texts, i + 1)

parseHtml(page, sourceUrl) ==
    [title |-> FirstNonEmpty(page.titles, 1),
     prepTime |-> 0,
     cookTime |-> 0,
     additionalTime |-> 0,
     servings |-> 0,
     sourceUrl |-> sourceUrl]

(***************************************************************************)
(* URLs.  A URL string is modelled by what `new URL(url)` makes of it and  *)
(* by whether it starts with 'http://' or 'https://' (httpPrefix).         *)
(***************************************************************************)
Url(href, parses, protocol, httpPrefix) ==
    [href |-> href, parses |-> parses, protocol |-> protocol,
     httpPrefix |-> httpPrefix]

NoUrl == Url("", FALSE, Undefined, FALSE)

\* a validator without the protocol test
isValidUrlAnyProtocol(u) == u.parses

isValidUrl(u) ==
    IF ~u.parses THEN FALSE
    ELSE u.protocol = "http:" \/ u.protocol = "https:"

(***************************************************************************)
(* Inputs of the URL import: import URLs and fetched pages.                *)
(***************************************************************************)
SeqsUpTo(S, n) == UNION {[1..k -> S] : k \in 0..n}

PageUrl == "https://site.example/soup"

ImportUrls ==
    {Url(PageUrl, TRUE, "https:", TRUE),
     Url("http://site.example/soup", TRUE, "http:", TRUE),
     Url("HTTPS://site.example/soup", TRUE, "https:", FALSE),
     Url("ftp://site.example/soup", TRUE, "ftp:", FALSE),
     Url("not-a-valid-url-format", FALSE, Undefined, FALSE),
     Url("http://", FALSE, Undefined, TRUE),
     NoUrl}

PT15M == <<"P", "T", "1", "5", "M">>
PT30M == <<"P", "T", "3", "0", "M">>
PT1H == <<"P", "T", "1", "H">>
PT1H30M == <<"P", "T", "1", "H", "3", "0", "M">>

Soup == Item("Recipe", "Soup", Undefined, Dur(PT15M), Dur(PT30M), Dur(PT1H),
             StrYield(<<"4", " ", "servings">>))
Bread == Item("Recipe", "Bread", "https://site.example/bread", NoDuration,
              NoDuration, NoDuration, NoYield)
Site == Item("WebSite", "Site", "https://site.example/", NoDuration,
             NoDuration, NoDuration, NoYield)

\* documents that differ in structure
Members == SeqsUpTo({Soup, Site}, MaxItems)

StructDocs ==
    {Malformed, NullDoc}
      \cup {ObjectDoc(i) : i \in {Soup, Bread, Site}}
      \cup {GraphDoc(self, g) : self \in {NoFields, Bread}, g \in Members}
      \cup {ArrayDoc(a) : a \in Members}

\* documents that are one Recipe object and differ in its fields
Durations == {NoDuration, NumDuration, Dur(PT15M), Dur(PT30M), Dur(PT1H30M)}
Yields == {NoYield, NumYield(4), StrYield(<<"4", " ", "servings">>),
           StrYield(<<"Makes", " ", "1", "2">>), StrYield(<<"several">>)}

FieldDocs ==
    {ObjectDoc(Item("Recipe", n, u, p, c, t, y)) :
        n \in {"Soup"}, u \in {Undefined, "", "https://site.example/canonical"},
        p \in {NoDuration, Dur(PT15M)}, c \in {NoDuration, Dur(PT30M)},
        t \in Durations, y \in Yields}

TitleCascades == {<<"", "", "", "">>, <<"", "", "", "Stew">>,
                  <<"", "Ragout", "", "Stew">>}

Page(tags, titles) == [tags |-> tags, titles |-> titles]
NoPage == Page(<<>>, <<>>)

Pages ==
    {Page(tags, t) : tags \in SeqsUpTo(StructDocs, MaxTags), t \in TitleCascades}
      \cup {Page(<<d>>, <<"", "", "", "">>) : d \in FieldDocs}

(***************************************************************************)
(* fetchUrl: the ways axios.get can fail and the Error thrown for each.    *)
(***************************************************************************)
FetchFailures == {"ECONNABORTED", "response", "other"}

\* a catch block with one message for every failure
FetchErrorMessageGeneric(failure) ==
    "Failed to fetch URL - please check the URL and try again"

FetchErrorMessage(failure) ==
    IF failure = "ECONNABORTED"
    THEN "Request timeout - the website took too long to respond"
    ELSE IF failure = "response"
    THEN "Failed to fetch URL: <status> <statusText>"
    ELSE "Failed to fetch URL - please check the URL and try again"

(***************************************************************************)
(* An import request: typed into the import form (handleImportUrl of      *)
(* app.js) or posted to the route (POST /api/recipes/import) directly;     *)
(* then parseRecipeFromUrl, one action per statement.  The route answers a *)
(* thrown Error with its message, which the form displays as it is.        *)
(***************************************************************************)
UrlInit ==
    /\ url \in ImportUrls
    /\ pc \in {"form", "route"}
    /\ html = NoPage
    /\ recipeData = Null
    /\ error = ""
    /\ fetches = 0
    /\ axiosError = "none"
    /\ importStatus = ""
    /\ text = <<>>
    /\ ocr = Null
    /\ ingredient = Null
    /\ targetSystem = ""
    /\ converted = Null
    /\ unitToken = <<>>
    /\ urlUnit = NoResult
    /\ ocrUnit = NoResult
    /\ category = NoCategory
    /\ mapped = NoResult
    /\ db = EmptyDb
    /\ calls = NoCalls
    /\ stored = <<>>
    /\ currentUnitSystem = ""
    /\ localStorage = NoItem
    /\ lastToggle = ""
    /\ view = Null
    /\ form = Null
    /\ updatedAt = 0
    /\ recipeAppData = <<>>
    /\ deleted = {}

\* handleImportUrl: if (!url) { showImportStatus('error', ...); return; }
FormRejectEmpty ==
    /\ pc = "form"
    /\ url.href = ""
    /\ pc' = "rejected"
    /\ importStatus' = "Please enter a recipe URL"
    /\ UNCHANGED <<url, html, recipeData, error, fetches, axiosError,
                 ocrVars, convVars, normVars, catVars,
                 appVars>>

\* handleImportUrl: the URL starts with neither 'http://' nor 'https://'
FormRejectScheme ==
    /\ pc = "form"
    /\ url.href # ""
    /\ ~url.httpPrefix
    /\ pc' = "rejected"
    /\ importStatus'
           = "Please enter a valid URL starting with http:// or https://"
    /\ UNCHANGED <<url, html, recipeData, error, fetches, axiosError,
                 ocrVars, convVars, normVars, catVars,
                 appVars>>

\* handleImportUrl: showImportStatus('loading', ...), then the form posts
\* { url } to the import route
FormSubmit ==
    /\ pc = "form"
    /\ url.href # ""
    /\ url.httpPrefix
    /\ pc' = "route"
    /\ importStatus' = "Importing recipe... This may take a few seconds."
    /\ UNCHANGED <<url, html, recipeData, error, fetches, axiosError,
                 ocrVars, convVars, normVars, catVars,
                 appVars>>

\* handleImportUrl: the route answered with an error; the catch block shows
\* result.message || 'Failed to import recipe'
FormShowError ==
    /\ importStatus = "Importing recipe... This may take a few seconds."
    /\ pc \in {"thrown", "rejected"}
    /\ importStatus' = IF pc = "thrown" THEN error
                       ELSE "Failed to import recipe"
    /\ UNCHANGED <<url, pc, html, recipeData, error, fetches, axiosError,
                 ocrVars, convVars, normVars, catVars,
                 appVars>>

\* POST /import: if (!url) return res.status(400).json(...)
RouteReject ==
    /\ pc = "route"
    /\ url.href = ""
    /\ pc' = "rejected"
    /\ error' = "URL is required"
    /\ UNCHANGED <<url, html, recipeData, fetches, axiosError, importStatus,
                 ocrVars, convVars, normVars, catVars,
                 appVars>>

\* POST /import: const recipeData = await parseRecipeFromUrl(url)
RouteCall ==
    /\ pc = "route"
    /\ url.href # ""
    /\ pc' = "validate"
    /\ UNCHANGED <<url, html, recipeData, error, fetches, axiosError,
                 importStatus, ocrVars, convVars, normVars, catVars,
                 appVars>>

\* if (!isValidUrl(url)) throw new Error('Invalid URL format')
ValidateFail ==
    /\ pc = "validate"
    /\ ~isValidUrl(url)
    /\ pc' = "thrown"
    /\ error' = "Invalid URL format"
    /\ UNCHANGED <<url, html, recipeData, fetches, axiosError, importStatus,
                 ocrVars, convVars, normVars, catVars,
                 appVars>>

ValidateOk ==
    /\ pc = "validate"
    /\ isValidUrl(url)
    /\ pc' = "fetch"
    /\ UNCHANGED <<url, html, recipeData, error, fetches, axiosError,
                 importStatus, ocrVars, convVars, normVars, catVars,
                 appVars>>

\* const html = await fetchUrl(url): the response arrives
FetchOk ==
    /\ pc = "fetch"
    /\ \E page \in Pages : html' = page
    /\ fetches' = fetches + 1
    /\ pc' = "jsonld"
    /\ UNCHANGED <<url, recipeData, error, axiosError, importStatus,
                 ocrVars, convVars, normVars, catVars,
                 appVars>>

\* fetchUrl throws: timeout, HTTP error status, or no response at all
FetchFail ==
    /\ pc = "fetch"
    /\ \E failure \in FetchFailures :
           /\ axiosError' = failure
           /\ error' = FetchErrorMessage(failure)
    /\ fetches' = fetches + 1
    /\ pc' = "thrown"
    /\ UNCHANGED <<url, html, recipeData, importStatus, ocrVars, convVars,
                 normVars, catVars,
                 appVars>>

\* let recipeData = parseJsonLd(html)
TryJsonLd ==
    /\ pc = "jsonld"
    /\ recipeData' = parseJsonLd(html)
    /\ pc' = "fallback"
    /\ UNCHANGED <<url, html, error, fetches, axiosError, importStatus,
                 ocrVars, convVars, normVars, catVars,
                 appVars>>

\* a fallback without the `if (!recipeData)` test
FallbackHtmlAlways ==
    /\ pc = "fallback"
    /\ recipeData' = parseHtml(html, url.href)
    /\ pc' = "check"
    /\ UNCHANGED <<url, html, error, fetches, axiosError, importStatus,
                 ocrVars, convVars, normVars, catVars,
                 appVars>>

\* if (!recipeData) recipeData = parseHtml(html, url)
FallbackHtml ==
    /\ pc = "fallback"
    /\ recipeData = Null
    /\ recipeData' = parseHtml(html, url.href)
    /\ pc' = "check"
    /\ UNCHANGED <<url, html, error, fetches, axiosError, importStatus,
                 ocrVars, convVars, normVars, catVars,
                 appVars>>

SkipFallback ==
    /\ pc = "fallback"
    /\ recipeData # Null
    /\ pc' = "check"
    /\ UNCHANGED <<url, html, recipeData, error, fetches, axiosError,
                 importStatus, ocrVars, convVars, normVars, catVars,
                 appVars>>

\* if (!recipeData || !recipeData.title) throw new Error(...)
CheckFail ==
    /\ pc = "check"
    /\ (recipeData = Null \/ recipeData.title = "")
    /\ pc' = "thrown"
    /\ error' = "Could not extract recipe data from this URL"
    /\ UNCHANGED <<url, html, recipeData, fetches, axiosError, importStatus,
                 ocrVars, convVars, normVars, catVars,
                 appVars>>

\* return recipeData
Return ==
    /\ pc = "check"
    /\ ~(recipeData = Null \/ recipeData.title = "")
    /\ pc' = "returned"
    /\ UNCHANGED <<url, html, recipeData, error, fetches, axiosError,
                 importStatus, ocrVars, convVars, normVars, catVars,
                 appVars>>

UrlNext ==
    \/ FormRejectEmpty
    \/ FormRejectScheme
    \/ FormSubmit
    \/ FormShowError
    \/ RouteReject
    \/ RouteCall
    \/ ValidateFail
    \/ ValidateOk
    \/ FetchOk
    \/ FetchFail
    \/ TryJsonLd
    \/ FallbackHtml
    \/ SkipFallback
    \/ CheckFail
    \/ Return

SpecUrl == UrlInit /\ [][UrlNext]_vars

(***************************************************************************)
(* Claims about the URL import (checked under SpecUrl).                    *)
(***************************************************************************)
\* the index of the first tag from i on that satisfies P-like test `hit`
\* (a sequence of booleans), 0 when there is none
RECURSIVE FirstTrue(_, _)
FirstTrue(hit, i) ==
    IF i > Len(hit) THEN 0
    ELSE IF hit[i] THEN i
    ELSE FirstTrue(hit, i + 1)

HasRecipeMember(items) == \E i \in 1..Len(items) : items[i].type = "Recipe"

\* the Recipe object of a parsed document by the documented search order:
\* an "@graph" member, then a top-level array member, then the document
DocumentedRecipe(doc) ==
    IF doc.hasGraph /\ HasRecipeMember(doc.items)
    THEN FindRecipe(doc.items, 1)
    ELSE IF doc.kind = "array" /\ HasRecipeMember(doc.items)
    THEN FindRecipe(doc.items, 1)
    ELSE IF doc.kind = "object" /\ doc.self.type = "Recipe" THEN doc.self
    ELSE Null

ContainsRecipe(tag) ==
    tag.kind \in {"object", "array"} /\ DocumentedRecipe(tag) # Null

\* the Recipe object the code took its result from
UsedRecipe(page) ==
    LET i == FirstTrue([k \in 1..Len(page.tags) |->
                            IsRecipeRecord(TagResult(page.tags[k]))], 1)
    IN  IF i = 0 THEN Null ELSE SelectRecipe(page.tags[i])

JsonLdUsed == pc \in {"fallback", "check", "returned"} /\ parseJsonLd(html) # Null

\* C1: when a JSON-LD Recipe object is used, the returned sourceUrl is the
\* object's url if present and non-empty, otherwise the import URL, and ''
\* only when neither exists: recipe.url || sourceUrl || ''.
C1_SourceUrlFallback ==
    (pc = "returned" /\ JsonLdUsed)
        => recipeData.sourceUrl = Or(UsedRecipe(html).url, Or(url.href, ""))

\* C2: parseJsonLd returns the recipe built from the first tag, in document
\* order, whose content contains a Recipe object; malformed tags and tags
\* without a Recipe are skipped; the result is null only when no tag
\* contains a Recipe.
C2_FirstTagWithRecipeWins ==
    pc = "fallback" =>
        LET i == FirstTrue([k \in 1..Len(html.tags) |->
                                ContainsRecipe(html.tags[k])], 1)
        IN  IF i = 0 THEN recipeData = Null
            ELSE recipeData = BuildRecipe(DocumentedRecipe(html.tags[i]))

\* C3: extractRecipeFromJsonLd uses the first that exists of: an "@graph"
\* member of type Recipe, a top-level array member of type Recipe, the
\* document itself when of type Recipe; it returns null only when none of
\* the three exists.
C3_SearchOrder ==
    (pc = "fallback" /\ Len(html.tags) = 1
        /\ html.tags[1].kind \in {"object", "array"})
        => LET doc == html.tags[1]
           IN  IF DocumentedRecipe(doc) = Null THEN recipeData = Null
               ELSE recipeData = BuildRecipe(DocumentedRecipe(doc))

\* C4: with a totalTime field, additionalTime = parseTime(totalTime) -
\* parseTime(prepTime) - parseTime(cookTime); without a totalTime field no
\* derivation takes place and additionalTime is 0.
C4_AdditionalTimeDerivation ==
    JsonLdUsed =>
        LET r == UsedRecipe(html)
        IN  IF r.totalTime.kind # "absent"
            THEN recipeData.additionalTime =
                     parseTime(r.totalTime) - parseTime(r.prepTime)
                         - parseTime(r.cookTime)
            ELSE recipeData.additionalTime = 0

\* C5: every emitted recipe record has prepTime, cookTime, additionalTime
\* and servings that are non-negative integers.
C5_NonNegativeFields ==
    (pc \in {"check", "returned"} /\ recipeData # Null)
        => /\ recipeData.prepTime \in Nat
           /\ recipeData.cookTime \in Nat
           /\ recipeData.additionalTime \in Nat
           /\ recipeData.servings \in Nat

\* the steps of one import request, in the order the code takes them
StepOrder ==
    {<<"form", "route">>, <<"form", "rejected">>, <<"route", "validate">>,
     <<"route", "rejected">>, <<"validate", "fetch">>,
     <<"validate", "thrown">>, <<"fetch", "jsonld">>, <<"fetch", "thrown">>,
     <<"jsonld", "fallback">>, <<"fallback", "check">>,
     <<"check", "thrown">>, <<"check", "returned">>}

\* C18: within one parseRecipeFromUrl call the steps happen strictly in the
\* order validate, fetch, JSON-LD extraction, HTML fallback; the page is
\* fetched at most once, a failed fetch ends the call with an error and is
\* never retried; the HTML fallback runs only after JSON-LD extraction has
\* finished without finding a recipe, never when it found one.
C18_StrictlySequential ==
    [][/\ (pc' # pc) => (<<pc, pc'>> \in StepOrder)
       /\ fetches' <= 1
       /\ (fetches' # fetches) => (pc = "fetch" /\ fetches' = fetches + 1)
       /\ (pc = "fetch" /\ axiosError' # "none")
              => (pc' = "thrown" /\ error' # "")
       /\ FallbackHtml => (fetches = 1 /\ parseJsonLd(html) = Null)
       /\ (pc = "fallback" /\ parseJsonLd(html) # Null)
              => (recipeData' = parseJsonLd(html))]_vars

\* the HTML fallback has run after JSON-LD extraction found nothing
C18_Witness ==
    /\ pc = "check"
    /\ fetches = 1
    /\ Len(html.tags) > 0
    /\ parseJsonLd(html) = Null
    /\ recipeData = parseHtml(html, url.href)

WellFormedHttpUrl(u) == u.parses /\ u.protocol \in {"http:", "https:"}

Loading == "Importing recipe... This may take a few seconds."

\* the message the caller of the import gets: the status text of the form,
\* or the message of the route's answer for a direct request
Surfaced == IF importStatus # "" THEN importStatus ELSE error

Failed == pc \in {"rejected", "thrown"} /\ importStatus # Loading

InvalidUrlMessages ==
    {"Invalid URL format", "URL is required", "Please enter a recipe URL",
     "Please enter a valid URL starting with http:// or https://"}

\* C19: an import request whose URL is not a well-formed http or https URL
\* is rejected with an invalid-URL error, and no network fetch is ever
\* started for it.
C19_InvalidUrlNeverFetched ==
    ~WellFormedHttpUrl(url) =>
        /\ fetches = 0
        /\ pc \in {"form", "route", "validate", "rejected", "thrown"}
        /\ Failed => Surfaced \in InvalidUrlMessages

\* 'http://' passes the test of the form and is rejected by isValidUrl
C19_Witness ==
    /\ url.httpPrefix
    /\ ~WellFormedHttpUrl(url)
    /\ pc = "thrown"
    /\ importStatus = "Invalid URL format"
    /\ fetches = 0

\* the kind of failure of a failed import
FailureKind ==
    IF fetches = 0 THEN "invalid URL format"
    ELSE IF axiosError = "ECONNABORTED" THEN "fetch timeout"
    ELSE IF axiosError = "response" THEN "HTTP error status"
    ELSE IF axiosError = "other" THEN "unreachable host"
    ELSE "extraction failure"

\* the kind of failure a caller reads from a message
KindOfMessage(message) ==
    CASE message \in InvalidUrlMessages -> "invalid URL format"
      [] message = "Request timeout - the website took too long to respond"
             -> "fetch timeout"
      [] message = "Failed to fetch URL: <status> <statusText>"
             -> "HTTP error status"
      [] message = "Failed to fetch URL - please check the URL and try again"
             -> "unreachable host"
      [] message = "Could not extract recipe data from this URL"
             -> "extraction failure"
      [] OTHER -> "unknown"

\* C20: every failed URL import surfaces exactly one error condition,
\* determined by the kind of failure; invalid URL format, fetch timeout, HTTP
\* error status, unreachable host and extraction failure each produce a
\* different message, so the caller can tell them apart; an unreachable URL
\* never produces the invalid-URL-format error.
C20_DistinctErrorConditions ==
    Failed => KindOfMessage(Surfaced) = FailureKind

\* an unreachable host, as the form shows it
C20_Witness ==
    /\ pc = "thrown"
    /\ axiosError = "other"
    /\ importStatus = "Failed to fetch URL - please check the URL and try again"


(***************************************************************************)
(* OCR Text-to-Recipe Parser (recipeTextParser.js).                        *)
(*                                                                         *)
(* The text is the sequence of its lines (text.split('\n')); a line is a   *)
(* sequence of atoms.  The tables below give, for the words that occur in  *)
(* the modelled texts, what the code's regular expressions read of them.   *)
(***************************************************************************)
Space == " "
NewLine == "\n"
Bullets == {"-", "*", "+"}          \* of the class [•\-*·◦▪▫+«»]
Punctuation == Bullets \cup {".", ")", ":", "/", ",", "?", "(", "~"}

IsWord(a) ==
    a \notin Digits /\ a \notin Punctuation /\ a # Space /\ a # NewLine

\* toLowerCase() of a word
Lower(w) ==
    CASE w = "Ingredients" -> "ingredients"
      [] w = "INGREDIENTS" -> "ingredients"
      [] w = "Instructions" -> "instructions"
      [] w = "Directions" -> "directions"
      [] w = "Method" -> "method"
      [] w = "Notes" -> "notes"
      [] w = "Recipe" -> "recipe"
      [] w = "Pancakes" -> "pancakes"
      [] w = "Fluffy" -> "fluffy"
      [] w = "Serves" -> "serves"
      [] w = "Prep" -> "prep"
      [] w = "Tbs" -> "tbs"
      [] w = "Mix" -> "mix"
      [] w = "Stir" -> "stir"
      [] w = "Bake" -> "bake"
      [] w = "CETTE" -> "cette"
      [] w = "Cups" -> "cups"
      [] w = "ML" -> "ml"
      [] w = "Pinch" -> "pinch"
      [] w = "Dinner" -> "dinner"
      [] w = "DINNER" -> "dinner"
      [] w = "Entrée" -> "entrée"
      [] w = "Main" -> "main"
      [] w = "Course" -> "course"
      [] w = "Starters" -> "starters"
      [] w = "Drinks" -> "drinks"
      [] w = "Thai" -> "thai"
      [] OTHER -> w

\* number of characters of an atom
AtomLen(a) ==
    IF ~IsWord(a) THEN 1
    ELSE CASE Lower(a) \in {"a", "g", "c", "l"} -> 1
           [] Lower(a) \in {"ab", "kg", "ml", "oz", "lb"} -> 2
           [] Lower(a) \in {"mix", "tbs", "tsp", "cup", "lbs", "min", "and"} -> 3
           [] Lower(a) \in {"cups", "well", "bake", "stir", "prep", "tbsp",
                            "time", "eggs", "salt"} -> 4
           [] Lower(a) \in {"flour", "notes", "cette", "until"} -> 5
           [] Lower(a) \in {"butter", "fluffy", "serves", "recipe", "method",
                            "golden"} -> 6
           [] Lower(a) \in {"pancakes"} -> 8
           [] Lower(a) \in {"directions"} -> 10
           [] Lower(a) \in {"ingredients"} -> 11
           [] Lower(a) \in {"instructions", "thoroughly"} -> 12

\* [A-Z]{2,} and [a-z] on a word
IsUpperWord(w) == IsWord(w) /\ Lower(w) # w /\ w \in {"CETTE", "INGREDIENTS"}
IsLowerLetter(w) == IsWord(w) /\ AtomLen(w) = 1 /\ Lower(w) = w

RECURSIVE StrLen(_)
StrLen(s) == IF s = <<>> THEN 0 ELSE AtomLen(Head(s)) + StrLen(Tail(s))

LowerStr(s) == [i \in 1..Len(s) |-> IF IsWord(s[i]) THEN Lower(s[i]) ELSE s[i]]

\* String.prototype.trim
RECURSIVE TrimStart(_)
TrimStart(s) ==
    IF s # <<>> /\ Head(s) = Space THEN TrimStart(Tail(s)) ELSE s

RECURSIVE TrimEnd(_)
TrimEnd(s) ==
    IF s # <<>> /\ s[Len(s)] = Space
    THEN TrimEnd(SubSeq(s, 1, Len(s) - 1)) ELSE s

Trim(s) == TrimEnd(TrimStart(s))

\* text.split('\n').map(line => line.trim())
TrimLines(lines) == [i \in 1..Len(lines) |-> Trim(lines[i])]

RECURSIVE NonEmpty(_)
NonEmpty(lines) ==
    IF lines = <<>> THEN <<>>
    ELSE IF Head(lines) = <<>> THEN NonEmpty(Tail(lines))
    ELSE <<Head(lines)>> \o NonEmpty(Tail(lines))

\* text.trim() on the whole text: blank lines at both ends go
RECURSIVE DropBlankStart(_)
DropBlankStart(lines) ==
    IF lines # <<>> /\ Trim(Head(lines)) = <<>>
    THEN DropBlankStart(Tail(lines)) ELSE lines

RECURSIVE DropBlankEnd(_)
DropBlankEnd(lines) ==
    IF lines # <<>> /\ Trim(lines[Len(lines)]) = <<>>
    THEN DropBlankEnd(SubSeq(lines, 1, Len(lines) - 1)) ELSE lines

TrimText(lines) ==
    LET t == DropBlankEnd(DropBlankStart(lines))
    IN  IF t = <<>> THEN <<>>
        ELSE IF Len(t) = 1 THEN <<Trim(t[1])>>
        ELSE <<TrimStart(t[1])>> \o SubSeq(t, 2, Len(t) - 1)
                 \o <<TrimEnd(t[Len(t)])>>

\* /^(name|name|...):?$/i
IsHeading(line, names) ==
    LET l == LowerStr(line)
    IN  \/ l \in names
        \/ /\ l # <<>>
           /\ l[Len(l)] = ":"
           /\ SubSeq(l, 1, Len(l) - 1) \in names

TitleSkipHeadings ==
    {<<"ingredients">>, <<"ingredient">>, <<"directions">>, <<"direction">>,
     <<"instructions">>, <<"instruction">>, <<"method">>, <<"steps">>,
     <<"step">>}
IngredientsHeadings ==
    {<<"ingredients">>, <<"ingredient">>,
     <<"what", " ", "you", " ", "need">>}
InstructionsHeadings ==
    {<<"instructions">>, <<"instruction">>, <<"directions">>, <<"direction">>,
     <<"method">>, <<"steps">>, <<"step">>, <<"preparation">>}
IngredientLineSkipHeadings ==
    {<<"ingredients">>, <<"ingredient">>, <<"instructions">>,
     <<"instruction">>, <<"directions">>, <<"direction">>}
NotesHeadings ==
    {<<"notes">>, <<"note">>, <<"tips">>, <<"tip">>, <<"nutrition">>,
     <<"source">>}

\* lines.findIndex(pred), 1-based; 0 for -1
RECURSIVE FindHeading(_, _, _)
FindHeading(lines, names, i) ==
    IF i > Len(lines) THEN 0
    ELSE IF IsHeading(lines[i], names) THEN i
    ELSE FindHeading(lines, names, i + 1)

\* line.split(/\s+/): the lengths of the words of a trimmed line
RECURSIVE SplitLens(_, _)
SplitLens(s, cur) ==
    IF s = <<>> THEN <<cur>>
    ELSE IF Head(s) = Space
         THEN (IF cur = 0 THEN <<>> ELSE <<cur>>) \o SplitLens(Tail(s), 0)
         ELSE SplitLens(Tail(s), cur + AtomLen(Head(s)))

HasLetter(line) == \E i \in 1..Len(line) : IsWord(line[i])

\* /^[A-Z]{2,}\s+[a-z]$/
IsCapsThenLetter(line) ==
    /\ Len(line) >= 3
    /\ IsUpperWord(line[1])
    /\ \A i \in 2..(Len(line) - 1) : line[i] = Space
    /\ IsLowerLetter(line[Len(line)])

\* the tests of extractTitle's loop: TRUE when the line is skipped
TitleSkips(line) ==
    \/ StrLen(line) < 3
    \/ ~HasLetter(line)
    \/ IsCapsThenLetter(line)
    \/ LET w == SplitLens(line, 0) IN \A i \in 1..Len(w) : w[i] <= 2
    \/ IsHeading(line, TitleSkipHeadings)

RECURSIVE FirstTitleLine(_, _)
FirstTitleLine(lines, i) ==
    IF i > Len(lines) THEN 0
    ELSE IF TitleSkips(lines[i]) THEN FirstTitleLine(lines, i + 1)
    ELSE i

\* .replace(/^(prefix:?\s*)/i, '')
StripPrefix(line, prefix) ==
    IF line # <<>> /\ IsWord(line[1]) /\ Lower(line[1]) = prefix
    THEN LET rest == Tail(line)
         IN  TrimStart(IF rest # <<>> /\ Head(rest) = ":"
                       THEN Tail(rest) ELSE rest)
    ELSE line

UntitledRecipe == <<"Untitled", " ", "Recipe">>

extractTitle(txt) ==
    LET lines == NonEmpty(TrimLines(txt))
        k == FirstTitleLine(lines, 1)
    IN  IF lines = <<>> \/ k = 0 THEN UntitledRecipe
        ELSE LET title == Trim(StripPrefix(StripPrefix(lines[k], "recipe"),
                                           "title"))
             IN  IF title = <<>> THEN UntitledRecipe ELSE title

\* /^(prep|cook|total|serves?|yield)/i
LooksLikeMetadata(line) ==
    /\ line # <<>>
    /\ IsWord(line[1])
    /\ Lower(line[1]) \in {"prep", "cook", "total", "serve", "serves", "yield"}

RECURSIVE JoinLines(_)
JoinLines(lines) ==
    IF lines = <<>> THEN <<>>
    ELSE IF Len(lines) = 1 THEN lines[1]
    ELSE lines[1] \o <<Space>> \o JoinLines(Tail(lines))

RECURSIVE DropMetadata(_)
DropMetadata(lines) ==
    IF lines = <<>> THEN <<>>
    ELSE IF LooksLikeMetadata(Head(lines)) THEN DropMetadata(Tail(lines))
    ELSE <<Head(lines)>> \o DropMetadata(Tail(lines))

DescriptionLimit == 500

\* .substring(0, n), in characters (a word is kept or dropped whole)
RECURSIVE Substring(_, _)
Substring(s, n) ==
    IF s = <<>> \/ AtomLen(Head(s)) > n THEN <<>>
    ELSE <<Head(s)>> \o Substring(Tail(s), n - AtomLen(Head(s)))

extractDescription(txt) ==
    LET lines == TrimLines(txt)
        ingredientsIndex == FindHeading(lines, IngredientsHeadings, 1) - 1
    IN  IF ingredientsIndex > 1
        THEN LET descriptionLines ==
                     DropMetadata(NonEmpty(SubSeq(lines, 2, ingredientsIndex)))
             IN  Substring(JoinLines(descriptionLines), DescriptionLimit)
        ELSE <<>>

\* the two .replace calls that remove list markers, and .trim()
StripBullet(line) ==
    IF line # <<>> /\ Head(line) \in Bullets THEN TrimStart(Tail(line))
    ELSE line

\* /^\d+[.):]\s*/
HasNumberMarker(line) ==
    LET e == DigitRunEnd(line, 1)
    IN  e >= 1 /\ e < Len(line) /\ line[e + 1] \in {".", ")", ":"}

StripNumber(line) ==
    IF HasNumberMarker(line)
    THEN TrimStart(SubSeq(line, DigitRunEnd(line, 1) + 2, Len(line)))
    ELSE line

CleanLine(line) == Trim(StripNumber(StripBullet(line)))

\* keys that every object literal inherits from Object.prototype, of which
\* "constructor" is made of letters only; unitMap[key] is then a function
InheritedKeys == {"constructor"}
InheritedValue == "[Function]"

\* normalizeUnit of recipeTextParser.js; match[2] may be undefined
UnitMap(u) ==
    CASE u \in {"cup", "cups", "c"} -> "cups"
      [] u \in {"tablespoon", "tablespoons", "tbsp", "tbs"} -> "tbsp"
      [] u \in {"teaspoon", "teaspoons", "tsp"} -> "tsp"
      [] u \in {"ounce", "ounces", "oz"} -> "oz"
      [] u \in {"pound", "pounds", "lb", "lbs"} -> "lbs"
      [] u \in {"gram", "grams", "g"} -> "g"
      [] u \in {"kilogram", "kilograms", "kg"} -> "kg"
      [] u \in {"milliliter", "milliliters", "ml"} -> "ml"
      [] u \in {"liter", "liters", "l"} -> "l"
      [] u \in InheritedKeys -> InheritedValue
      [] OTHER -> u

\* .replace(/\.$/, '')
StripPeriod(s) ==
    IF s # <<>> /\ s[Len(s)] = "." THEN SubSeq(s, 1, Len(s) - 1) ELSE s

\* unit: <<>> (undefined or '') or a string; the keys of the map are single
\* words
OcrNormalizeUnit(unit) ==
    IF unit = <<>> THEN <<>>
    ELSE LET normalized == StripPeriod(Trim(LowerStr(unit)))
         IN  IF Len(normalized) = 1 /\ IsWord(normalized[1])
             THEN <<UnitMap(normalized[1])>>
             ELSE normalized

\* [\d\s\/\.]
QuantityClass == Digits \cup {Space, "/", "."}

RECURSIVE ClassRunEnd(_, _)
ClassRunEnd(s, i) ==
    IF i <= Len(s) /\ s[i] \in QuantityClass THEN ClassRunEnd(s, i + 1)
    ELSE i - 1

RECURSIVE LastSpace(_, _)
LastSpace(s, i) ==
    IF i < 1 THEN 0 ELSE IF s[i] = Space THEN i ELSE LastSpace(s, i - 1)

NameOnly(txt) == [quantity |-> <<>>, unit |-> <<>>, name |-> txt]

\* text.match(/^([\d\s\/\.]+)\s*([a-zA-Z]+\.?)?\s+(.+)$/) and the object
\* built from it.  n: end of the longest quantity prefix.  First the match
\* with the whole prefix and the word after it as unit (with its period
\* when one follows), which needs white space after the unit; failing
\* that, the match without unit, where the quantity ends before the last
\* space of the prefix.
OcrParseIngredientText(txt) ==
    LET n == ClassRunEnd(txt, 1)
        hasWord == n >= 1 /\ n < Len(txt) /\ IsWord(txt[n + 1])
        dot == hasWord /\ n + 2 <= Len(txt) /\ txt[n + 2] = "."
        u == IF dot THEN n + 2 ELSE n + 1      \* last atom of the unit
        sp == LastSpace(txt, n)
    IN  IF n = 0 THEN NameOnly(txt)
        ELSE IF hasWord /\ u + 2 <= Len(txt) /\ txt[u + 1] = Space
        THEN [quantity |-> Trim(SubSeq(txt, 1, n)),
              unit |-> OcrNormalizeUnit(SubSeq(txt, n + 1, u)),
              name |-> Trim(SubSeq(txt, u + 1, Len(txt)))]
        ELSE IF sp >= 2 /\ sp < Len(txt)
        THEN [quantity |-> Trim(SubSeq(txt, 1, sp - 1)),
              unit |-> <<>>,
              name |-> Trim(SubSeq(txt, sp + 1, Len(txt)))]
        ELSE NameOnly(txt)

RECURSIVE parseIngredientLines(_)
parseIngredientLines(lines) ==
    IF lines = <<>> THEN <<>>
    ELSE LET line == Head(lines)
             rest == parseIngredientLines(Tail(lines))
         IN  IF line = <<>> THEN rest
             ELSE IF IsHeading(line, IngredientLineSkipHeadings) THEN rest
             ELSE IF CleanLine(line) = <<>> THEN rest
             ELSE <<OcrParseIngredientText(CleanLine(line))>> \o rest

extractIngredients(txt) ==
    LET lines == TrimLines(txt)
        startIndex == FindHeading(lines, IngredientsHeadings, 1)
    IN  IF startIndex = 0 THEN parseIngredientLines(lines)
        ELSE LET endIndex ==
                     FindHeading(lines, InstructionsHeadings, startIndex + 1)
             IN  parseIngredientLines(
                     SubSeq(lines, startIndex + 1,
                            IF endIndex # 0 THEN endIndex - 1 ELSE Len(lines)))

\* the loop of parseInstructionLines from line i on, with its three locals
RECURSIVE InstructionLoop(_, _, _, _, _)
InstructionLoop(lines, i, instructions, currentParagraph, lastLineWasEmpty) ==
    IF i > Len(lines)
    THEN IF Trim(currentParagraph) # <<>>
         THEN Append(instructions, Trim(currentParagraph))
         ELSE instructions
    ELSE LET line == lines[i]
             cleanLine == CleanLine(line)
             isNewStep == \/ lastLineWasEmpty
                          \/ Head(line) \in Bullets
                          \/ HasNumberMarker(line)
         IN  IF line = <<>>
             THEN InstructionLoop(lines, i + 1, instructions,
                                  currentParagraph, TRUE)
             ELSE IF IsHeading(line, NotesHeadings)
             THEN InstructionLoop(lines, Len(lines) + 1, instructions,
                                  currentParagraph, lastLineWasEmpty)
             ELSE IF cleanLine = <<>>
             THEN InstructionLoop(lines, i + 1, instructions,
                                  currentParagraph, lastLineWasEmpty)
             ELSE IF isNewStep /\ Trim(currentParagraph) # <<>>
             THEN InstructionLoop(lines, i + 1,
                                  Append(instructions, Trim(currentParagraph)),
                                  cleanLine, FALSE)
             ELSE IF currentParagraph # <<>>
             THEN InstructionLoop(lines, i + 1, instructions,
                                  currentParagraph \o <<Space>> \o cleanLine,
                                  FALSE)
             ELSE InstructionLoop(lines, i + 1, instructions, cleanLine, FALSE)

parseInstructionLines(lines) == InstructionLoop(lines, 1, <<>>, <<>>, FALSE)

LongLine == 20

\* !line.match(/^[-•*\d]/) && line.length > 20
RECURSIVE FindLikelyInstruction(_, _)
FindLikelyInstruction(lines, i) ==
    IF i > Len(lines) THEN 0
    ELSE IF /\ ~(lines[i] # <<>> /\ Head(lines[i]) \in ({"-", "*"} \cup Digits))
            /\ StrLen(lines[i]) > LongLine
         THEN i
    ELSE FindLikelyInstruction(lines, i + 1)

extractInstructions(txt) ==
    LET lines == TrimLines(txt)
        startIndex == FindHeading(lines, InstructionsHeadings, 1)
        ingredientsIndex == FindHeading(lines, IngredientsHeadings, 1)
        afterIngredients == SubSeq(lines, ingredientsIndex + 1, Len(lines))
        instructionsStart == FindLikelyInstruction(afterIngredients, 1)
    IN  IF startIndex = 0
        THEN IF ingredientsIndex # 0 /\ instructionsStart # 0
             THEN parseInstructionLines(
                      SubSeq(afterIngredients, instructionsStart,
                             Len(afterIngredients)))
             ELSE <<>>
        ELSE parseInstructionLines(SubSeq(lines, startIndex + 1, Len(lines)))

\* the lines (by index in the trimmed text) that extractIngredients turns
\* into an entry of the ingredient list
IngredientSectionLines(txt) ==
    LET lines == TrimLines(txt)
        startIndex == FindHeading(lines, IngredientsHeadings, 1)
        endIndex == FindHeading(lines, InstructionsHeadings, startIndex + 1)
        last == IF startIndex # 0 /\ endIndex # 0 THEN endIndex - 1
                ELSE Len(lines)
    IN  {i \in (startIndex + 1)..last :
             /\ lines[i] # <<>>
             /\ ~IsHeading(lines[i], IngredientLineSkipHeadings)
             /\ CleanLine(lines[i]) # <<>>}

\* the lines that extractInstructions makes part of an instruction: those
\* after the first instructions heading (or from the first likely
\* instruction after the ingredients heading) up to a notes heading
InstructionSectionLines(txt) ==
    LET lines == TrimLines(txt)
        startIndex == FindHeading(lines, InstructionsHeadings, 1)
        ingredientsIndex == FindHeading(lines, IngredientsHeadings, 1)
        instructionsStart ==
            FindLikelyInstruction(
                SubSeq(lines, ingredientsIndex + 1, Len(lines)), 1)
        first == IF startIndex # 0 THEN startIndex + 1
                 ELSE IF ingredientsIndex # 0 /\ instructionsStart # 0
                 THEN ingredientsIndex + instructionsStart
                 ELSE Len(lines) + 1
        notes == FindHeading(lines, NotesHeadings, first)
        last == IF notes # 0 THEN notes - 1 ELSE Len(lines)
    IN  {i \in first..last : lines[i] # <<>> /\ CleanLine(lines[i]) # <<>>}

\* the text as one string again: the lines joined by line breaks

RECURSIVE JoinText(_)
JoinText(lines) ==
    IF lines = <<>> THEN <<>>
    ELSE IF Len(lines) = 1 THEN lines[1]
    ELSE lines[1] \o <<NewLine>> \o JoinText(Tail(lines))

\* \s*: the first position from i on that holds no white space
RECURSIVE SkipSpace(_, _)
SkipSpace(s, i) ==
    IF i <= Len(s) /\ s[i] \in {Space, NewLine} THEN SkipSpace(s, i + 1)
    ELSE i

IsWordIn(s, i, words) == i <= Len(s) /\ IsWord(s[i]) /\ Lower(s[i]) \in words

MinuteWords == {"min", "mins", "minute", "minutes"}
HourWords == {"hr", "hrs", "hour", "hours"}

\* the match of /label(?:\s+time)?:?\s*(\d+)\s*(min|minute|minutes|hr|hour|
\* hours)/i that starts with the word at i: <<value, unit word>>, or <<>>
TimeMatchAt(s, i, label) ==
    LET afterTime == IF /\ SkipSpace(s, i + 1) > i + 1
                        /\ IsWordIn(s, SkipSpace(s, i + 1), {"time"})
                     THEN SkipSpace(s, i + 1) + 1 ELSE i + 1
        afterColon(j) == IF j <= Len(s) /\ s[j] = ":" THEN j + 1 ELSE j
        tryFrom(j) ==
            LET d == SkipSpace(s, afterColon(j))
                e == DigitRunEnd(s, d)
                w == SkipSpace(s, e + 1)
            IN  IF e >= d /\ IsWordIn(s, w, MinuteWords \cup HourWords)
                THEN <<ParseInt(SubSeq(s, d, e)), Lower(s[w])>>
                ELSE <<>>
    IN  IF ~IsWordIn(s, i, {label}) THEN <<>>
        ELSE IF tryFrom(afterTime) # <<>> THEN tryFrom(afterTime)
        ELSE tryFrom(i + 1)

RECURSIVE FirstTimeMatch(_, _, _)
FirstTimeMatch(s, i, label) ==
    IF i > Len(s) THEN <<>>
    ELSE IF TimeMatchAt(s, i, label) # <<>> THEN TimeMatchAt(s, i, label)
    ELSE FirstTimeMatch(s, i + 1, label)

MinutesPerHour == 60

extractTime(txt, timeType) ==
    LET match == FirstTimeMatch(JoinText(txt), 1, timeType)
    IN  IF match = <<>> THEN 0
        ELSE IF match[2] \in HourWords THEN match[1] * MinutesPerHour
        ELSE match[1]

\* the match of /label:?\s*(\d+)/i that starts with the word at i
RECURSIVE FirstCountMatch(_, _, _)
FirstCountMatch(s, i, labels) ==
    IF i > Len(s) THEN <<>>
    ELSE LET j == IF i + 1 <= Len(s) /\ s[i + 1] = ":" THEN i + 2 ELSE i + 1
             d == SkipSpace(s, j)
             e == DigitRunEnd(s, d)
         IN  IF IsWordIn(s, i, labels) /\ e >= d
             THEN <<ParseInt(SubSeq(s, d, e))>>
             ELSE FirstCountMatch(s, i + 1, labels)

extractServings(txt) ==
    LET s == JoinText(txt)
        serves == FirstCountMatch(s, 1, {"serve", "serves"})
        yield == FirstCountMatch(s, 1, {"yield"})
        makes == FirstCountMatch(s, 1, {"make", "makes"})
    IN  IF serves # <<>> THEN serves[1]
        ELSE IF yield # <<>> THEN yield[1]
        ELSE IF makes # <<>> THEN makes[1]
        ELSE 0

\* parseRecipeFromText without its two guards
parseRecipeFromTextUnguarded(txt) ==
    LET cleanText == TrimText(txt)
    IN  [title |-> extractTitle(cleanText),
         description |-> extractDescription(cleanText),
         prepTime |-> extractTime(cleanText, "prep"),
         cookTime |-> extractTime(cleanText, "cook"),
         additionalTime |-> 0,
         servings |-> extractServings(cleanText),
         ingredients |-> extractIngredients(cleanText),
         instructions |-> extractInstructions(cleanText)]

\* parseRecipeFromText; Thrown for the two `throw new Error` guards
parseRecipeFromText(txt) ==
    LET cleanText == TrimText(txt)
    IN  IF txt = <<>> \/ cleanText = <<>> THEN Thrown
        ELSE [title |-> extractTitle(cleanText),
              description |-> extractDescription(cleanText),
              prepTime |-> extractTime(cleanText, "prep"),
              cookTime |-> extractTime(cleanText, "cook"),
              additionalTime |-> 0,
              servings |-> extractServings(cleanText),
              ingredients |-> extractIngredients(cleanText),
              instructions |-> extractInstructions(cleanText)]

(***************************************************************************)
(* Inputs of the OCR parser: texts made of these lines.                    *)
(***************************************************************************)
LBlank == <<>>
LSpaces == <<" ", " ">>
LNoise == <<"~", "~">>
LSymbols == <<"?", "?", "?">>
LTiny == <<"ab", " ", "a">>
LTitle == <<"Pancakes">>
LDesc == <<"Fluffy", " ", "and", " ", "golden">>
LMeta == <<"Serves", " ", "4">>
LPrep == <<"Prep", " ", "time", ":", " ", "1", "5", " ", "min">>
LIngredients == <<"Ingredients", ":">>
LInstructions == <<"Instructions", ":">>
LNotes == <<"Notes", ":">>
LBulletIng == <<"-", " ", "2", " ", "cups", " ", "flour">>
LDecimalIng == <<"1", ".", "5", " ", "cups", " ", "flour">>
LTbsIng == <<"5", " ", "Tbs", ".", " ", "butter">>
LNumberedIng == <<"2", ")", " ", "1", "/", "2", " ", "tsp", " ", "salt">>
LStep1 == <<"1", ".", " ", "Mix", " ", "well", ".">>
LStep2 == <<"2", ".", " ", "Bake", ".">>
LBulletStep == <<"-", " ", "Stir", ".">>
LContinued == <<"until", " ", "golden", ".">>
LMarkerOnly == <<"2", ".">>
LLongStep == <<"Stir", " ", "thoroughly", " ", "until", " ", "golden", ".">>

GeneralLines == {LBlank, LSpaces, LNoise, LSymbols, LTiny, LTitle, LMarkerOnly}
DescriptionLines == {LNoise, LTitle, LDesc, LMeta, LPrep, LIngredients, LBlank}
IngredientLines == {LBulletIng, LDecimalIng, LTbsIng, LNumberedIng, LBlank,
                    LInstructions, LLongStep}
InstructionLines == {LStep1, LStep2, LBulletStep, LContinued, LMarkerOnly,
                     LBlank, LNotes}

OcrTexts ==
    SeqsUpTo(GeneralLines, MaxLines)
      \cup SeqsUpTo(DescriptionLines, MaxLines)
      \cup {<<LTitle, LIngredients>> \o t :
                t \in SeqsUpTo(IngredientLines, MaxLines)}
      \cup SeqsUpTo(IngredientLines, MaxLines - 1)
      \cup {<<LTitle, LInstructions>> \o t :
                t \in SeqsUpTo(InstructionLines, MaxLines)}
      \cup {<<LTitle, LInstructions>> \o t \o <<LIngredients>> \o u :
                t \in SeqsUpTo({LStep1, LNotes}, MaxLines - 2),
                u \in SeqsUpTo({LBulletIng, LStep2}, MaxLines - 2)}

OcrInit ==
    /\ text \in OcrTexts
    /\ ocr = Null
    /\ url = NoUrl
    /\ pc = "idle"
    /\ html = NoPage
    /\ recipeData = Null
    /\ error = ""
    /\ fetches = 0
    /\ axiosError = "none"
    /\ importStatus = ""
    /\ ingredient = Null
    /\ targetSystem = ""
    /\ converted = Null
    /\ unitToken = <<>>
    /\ urlUnit = NoResult
    /\ ocrUnit = NoResult
    /\ category = NoCategory
    /\ mapped = NoResult
    /\ db = EmptyDb
    /\ calls = NoCalls
    /\ stored = <<>>
    /\ currentUnitSystem = ""
    /\ localStorage = NoItem
    /\ lastToggle = ""
    /\ view = Null
    /\ form = Null
    /\ updatedAt = 0
    /\ recipeAppData = <<>>
    /\ deleted = {}

\* the call throws one of its two `Invalid text` / `No text content` errors
ParseTextThrows ==
    /\ ocr = Null
    /\ parseRecipeFromText(text) = Thrown
    /\ ocr' = Thrown
    /\ UNCHANGED <<text, urlVars, convVars, normVars, catVars,
                 appVars>>

\* the call returns the result record
ParseTextReturns ==
    /\ ocr = Null
    /\ parseRecipeFromText(text) # Thrown
    /\ ocr' = parseRecipeFromText(text)
    /\ UNCHANGED <<text, urlVars, convVars, normVars, catVars,
                 appVars>>

OcrNext ==
    \/ ParseTextThrows
    \/ ParseTextReturns

SpecOcr == OcrInit /\ [][OcrNext]_vars

(***************************************************************************)
(* Import requests of both kinds: a URL import (form or route, as above)   *)
(* and an OCR import, POST /api/recipes/import/ocr of routes/recipes.js,   *)
(* from the moment extractTextFromFile has returned the text.              *)
(***************************************************************************)
\* !recipeData.title || recipeData.title === 'Untitled Recipe'
\* without the test for the fallback title
OcrTitleMissingNoFallback(title) == title = <<>>

\* !recipeData.title || recipeData.title === 'Untitled Recipe'
OcrTitleMissing(title) == title = <<>> \/ title = UntitledRecipe

\* !extractedText || extractedText.trim().length === 0
NoTextExtracted(extractedText) == TrimText(extractedText) = <<>>

ImportInit ==
    /\ \/ /\ url \in ImportUrls
          /\ pc \in {"form", "route"}
          /\ text = <<>>
       \/ /\ url = NoUrl
          /\ pc = "upload"
          /\ text \in OcrTexts
    /\ html = NoPage
    /\ recipeData = Null
    /\ error = ""
    /\ fetches = 0
    /\ axiosError = "none"
    /\ importStatus = ""
    /\ ocr = Null
    /\ ingredient = Null
    /\ targetSystem = ""
    /\ converted = Null
    /\ unitToken = <<>>
    /\ urlUnit = NoResult
    /\ ocrUnit = NoResult
    /\ category = NoCategory
    /\ mapped = NoResult
    /\ db = EmptyDb
    /\ calls = NoCalls
    /\ stored = <<>>
    /\ currentUnitSystem = ""
    /\ localStorage = NoItem
    /\ lastToggle = ""
    /\ view = Null
    /\ form = Null
    /\ updatedAt = 0
    /\ recipeAppData = <<>>
    /\ deleted = {}

\* POST /import/ocr: status 400, 'No text could be extracted from the file'
UploadNoText ==
    /\ pc = "upload"
    /\ NoTextExtracted(text)
    /\ pc' = "uploadRejected"
    /\ error' = "No text could be extracted from the file"
    /\ UNCHANGED <<url, html, recipeData, fetches, axiosError, importStatus,
                 text, ocr, convVars, normVars, catVars,
                 appVars>>

\* POST /import/ocr: parseRecipeFromText, then status 400, 'Could not
\* extract recipe data from this file'
UploadRejects ==
    /\ pc = "upload"
    /\ ~NoTextExtracted(text)
    /\ parseRecipeFromText(text) # Thrown
    /\ OcrTitleMissing(parseRecipeFromText(text).title)
    /\ ocr' = parseRecipeFromText(text)
    /\ pc' = "uploadRejected"
    /\ error' = "Could not extract recipe data from this file"
    /\ UNCHANGED <<url, html, recipeData, fetches, axiosError, importStatus,
                 text, convVars, normVars, catVars,
                 appVars>>

\* POST /import/ocr: parseRecipeFromText, then success with data: recipeData
UploadReturns ==
    /\ pc = "upload"
    /\ ~NoTextExtracted(text)
    /\ parseRecipeFromText(text) # Thrown
    /\ ~OcrTitleMissing(parseRecipeFromText(text).title)
    /\ ocr' = parseRecipeFromText(text)
    /\ pc' = "uploadReturned"
    /\ UNCHANGED <<url, html, recipeData, error, fetches, axiosError,
                 importStatus, text, convVars, normVars, catVars,
                 appVars>>

ImportNext ==
    \/ FormRejectEmpty
    \/ FormRejectScheme
    \/ FormSubmit
    \/ FormShowError
    \/ RouteReject
    \/ RouteCall
    \/ ValidateFail
    \/ ValidateOk
    \/ FetchOk
    \/ FetchFail
    \/ TryJsonLd
    \/ FallbackHtml
    \/ SkipFallback
    \/ CheckFail
    \/ Return
    \/ UploadNoText
    \/ UploadRejects
    \/ UploadReturns

SpecImport == ImportInit /\ [][ImportNext]_vars

(***************************************************************************)
(* Claims about import requests of both kinds (checked under SpecImport).  *)
(***************************************************************************)
\* the page content has been obtained and the URL import has ended
PageImportEnded ==
    pc \in {"thrown", "returned"} /\ fetches = 1 /\ axiosError = "none"

\* the text holds no character other than white space
BlankLines(txt) == \A i \in 1..Len(txt) : Trim(txt[i]) = <<>>

\* the OCR text has been obtained and the OCR import has ended
TextImportEnded ==
    pc \in {"uploadRejected", "uploadReturned"} /\ ~BlankLines(text)

\* C21: once page content or OCR text has been obtained, the import is
\* rejected with an extraction error if and only if no title was extracted
\* (URL: the resulting title is empty; OCR: the title is empty or
\* 'Untitled Recipe'); a record with a title, whatever its other fields, is
\* returned successfully.
C21_RejectedIffNoTitle ==
    /\ PageImportEnded =>
           LET noTitle == recipeData = Null \/ recipeData.title = ""
           IN  /\ (pc = "thrown") <=> noTitle
               /\ (pc = "returned") <=> ~noTitle
               /\ (pc = "thrown")
                      => (error = "Could not extract recipe data from this URL")
    /\ TextImportEnded =>
           LET noTitle == ocr.title = <<>> \/ ocr.title = UntitledRecipe
           IN  /\ ocr # Null /\ ocr # Thrown
               /\ (pc = "uploadRejected") <=> noTitle
               /\ (pc = "uploadReturned") <=> ~noTitle
               /\ (pc = "uploadRejected")
                      => (error = "Could not extract recipe data from this file")

\* an OCR record with a title and nothing else is returned
C21_Witness ==
    /\ pc = "uploadReturned"
    /\ ocr.title # UntitledRecipe
    /\ ocr.ingredients = <<>>
    /\ ocr.instructions = <<>>

(***************************************************************************)
(* Unit conversion for display (scripts/utils.js).                         *)
(*                                                                         *)
(* A number is an exact non-negative rational [n, d] in lowest terms, or   *)
(* Infinity, or NaN.  A unit is a string (sequence of atoms); an           *)
(* ingredient quantity is a string or a number.                            *)
(***************************************************************************)
RECURSIVE GCD(_, _)
GCD(a, b) == IF b = 0 THEN a ELSE GCD(b, a % b)

\* the two numbers a division by zero gives
Infinity == [n |-> 1, d |-> 0]
NaN == [n |-> 0, d |-> 0]

IsFinite(x) == x.d # 0

\* n / d
Rat(n, d) ==
    IF d = 0 THEN (IF n = 0 THEN NaN ELSE Infinity)
    ELSE LET g == GCD(n, d) IN [n |-> n \div g, d |-> d \div g]

RMul(a, b) ==
    IF ~IsFinite(a) \/ ~IsFinite(b)
    THEN (IF a.n = 0 \/ b.n = 0 THEN NaN ELSE Infinity)
    ELSE LET g1 == GCD(a.n, b.d)
             g2 == GCD(b.n, a.d)
         IN  [n |-> (a.n \div g1) * (b.n \div g2),
              d |-> (a.d \div g2) * (b.d \div g1)]

RDiv(a, b) == RMul(a, [n |-> b.d, d |-> b.n])

\* a >= b (false when either is NaN)
RGe(a, b) ==
    IF a = NaN \/ b = NaN THEN FALSE
    ELSE IF a = Infinity THEN TRUE
    ELSE IF b = Infinity THEN FALSE
    ELSE IF b.n = 0 THEN TRUE
    ELSE LET g1 == GCD(a.n, b.n)
             g2 == GCD(a.d, b.d)
         IN  (a.n \div g1) * (b.d \div g2) >= (b.n \div g1) * (a.d \div g2)

\* a < b (false when either is NaN)
RLt(a, b) == a # NaN /\ b # NaN /\ ~RGe(a, b)

\* Math.round(value * k), k a positive integer, value finite
RoundTimes(value, k) ==
    LET a == k * (value.n % value.d)
    IN  k * (value.n \div value.d) + a \div value.d
            + (IF 2 * (a % value.d) >= value.d THEN 1 ELSE 0)

VOLUME_CONVERSIONS ==
    (<<"ml">> :> Rat(1, 1)) @@ (<<"l">> :> Rat(1000, 1))
      @@ (<<"cups">> :> Rat(250, 1)) @@ (<<"cup">> :> Rat(250, 1))
      @@ (<<"tbsp">> :> Rat(15, 1)) @@ (<<"tablespoon">> :> Rat(15, 1))
      @@ (<<"tablespoons">> :> Rat(15, 1))
      @@ (<<"tsp">> :> Rat(5, 1)) @@ (<<"teaspoon">> :> Rat(5, 1))
      @@ (<<"teaspoons">> :> Rat(5, 1))
      @@ (<<"fl", " ", "oz">> :> Rat(295735, 10000))
      @@ (<<"fluid", " ", "ounce">> :> Rat(295735, 10000))
      @@ (<<"fluid", " ", "ounces">> :> Rat(295735, 10000))
      @@ (<<"pint">> :> Rat(473176, 1000)) @@ (<<"pints">> :> Rat(473176, 1000))
      @@ (<<"quart">> :> Rat(946353, 1000))
      @@ (<<"quarts">> :> Rat(946353, 1000))
      @@ (<<"gallon">> :> Rat(378541, 100))
      @@ (<<"gallons">> :> Rat(378541, 100))

WEIGHT_CONVERSIONS ==
    (<<"g">> :> Rat(1, 1)) @@ (<<"gram">> :> Rat(1, 1))
      @@ (<<"grams">> :> Rat(1, 1))
      @@ (<<"kg">> :> Rat(1000, 1)) @@ (<<"kilogram">> :> Rat(1000, 1))
      @@ (<<"kilograms">> :> Rat(1000, 1))
      @@ (<<"mg">> :> Rat(1, 1000)) @@ (<<"milligram">> :> Rat(1, 1000))
      @@ (<<"milligrams">> :> Rat(1, 1000))
      @@ (<<"oz">> :> Rat(283495, 10000)) @@ (<<"ounce">> :> Rat(283495, 10000))
      @@ (<<"ounces">> :> Rat(283495, 10000))
      @@ (<<"lb">> :> Rat(453592, 1000)) @@ (<<"lbs">> :> Rat(453592, 1000))
      @@ (<<"pound">> :> Rat(453592, 1000))
      @@ (<<"pounds">> :> Rat(453592, 1000))

getUnitType(unit) ==
    IF unit = <<>> THEN "neutral"
    ELSE LET normalizedUnit == Trim(LowerStr(unit))
         IN  IF normalizedUnit \in DOMAIN VOLUME_CONVERSIONS THEN "volume"
             ELSE IF normalizedUnit \in DOMAIN WEIGHT_CONVERSIONS THEN "weight"
             ELSE "neutral"

metricUnits ==
    {<<"ml">>, <<"l">>, <<"g">>, <<"kg">>, <<"mg">>, <<"gram">>, <<"grams">>,
     <<"kilogram">>, <<"kilograms">>, <<"milligram">>, <<"milligrams">>}

imperialUnits ==
    {<<"cups">>, <<"cup">>, <<"tbsp">>, <<"tsp">>, <<"tablespoon">>,
     <<"tablespoons">>, <<"teaspoon">>, <<"teaspoons">>,
     <<"fl", " ", "oz">>, <<"fluid", " ", "ounce">>,
     <<"fluid", " ", "ounces">>, <<"oz">>, <<"ounce">>, <<"ounces">>,
     <<"lb">>, <<"lbs">>, <<"pound">>, <<"pounds">>,
     <<"pint">>, <<"pints">>, <<"quart">>, <<"quarts">>,
     <<"gallon">>, <<"gallons">>}

getUnitSystem(unit) ==
    IF unit = <<>> THEN "neutral"
    ELSE LET normalizedUnit == Trim(LowerStr(unit))
         IN  IF normalizedUnit \in metricUnits THEN "metric"
             ELSE IF normalizedUnit \in imperialUnits THEN "imperial"
             ELSE "neutral"

\* an ingredient quantity: a string or a number
StrQuantity(s) == [kind |-> "string", chars |-> s, num |-> Rat(0, 1)]
NumQuantity(n, d) == [kind |-> "number", chars |-> <<>>, num |-> Rat(n, d)]

AllDigits(s) == \A i \in 1..Len(s) : s[i] \in Digits

\* /^\d+\.?\d*$/
IsDecimal(str) ==
    LET e == DigitRunEnd(str, 1)
    IN  /\ e >= 1
        /\ \/ e = Len(str)
           \/ str[e + 1] = "." /\ AllDigits(SubSeq(str, e + 2, Len(str)))

\* /^\d+\/\d+$/
IsFraction(str) ==
    LET e == DigitRunEnd(str, 1)
    IN  /\ e >= 1 /\ e + 2 <= Len(str)
        /\ str[e + 1] = "/"
        /\ AllDigits(SubSeq(str, e + 2, Len(str)))

RECURSIVE SpaceRunEnd(_, _)
SpaceRunEnd(s, i) ==
    IF i <= Len(s) /\ s[i] = Space THEN SpaceRunEnd(s, i + 1) ELSE i - 1

\* /^\d+\s+\d+\/\d+$/
IsMixedFraction(str) ==
    LET e == DigitRunEnd(str, 1)
        b == SpaceRunEnd(str, e + 1)
    IN  /\ e >= 1 /\ b > e
        /\ IsFraction(SubSeq(str, b + 1, Len(str)))

RECURSIVE Pow10(_)
Pow10(k) == IF k = 0 THEN 1 ELSE 10 * Pow10(k - 1)

\* parseFloat of a string that passed IsDecimal
ParseFloat(str) ==
    LET e == DigitRunEnd(str, 1)
        decimals == SubSeq(str, e + 2, Len(str))
    IN  Rat(ParseInt(SubSeq(str, 1, e)) * Pow10(Len(decimals))
                + ParseInt(decimals),
            Pow10(Len(decimals)))

\* num / den of a string that passed IsFraction
ParseFraction(str) ==
    LET e == DigitRunEnd(str, 1)
    IN  Rat(ParseInt(SubSeq(str, 1, e)),
            ParseInt(SubSeq(str, e + 2, Len(str))))

NotQuantities == {<<"to", " ", "taste">>, <<"a", " ", "pinch">>}

parseQuantity(quantity) ==
    IF quantity.kind = "number" THEN quantity.num
    ELSE IF quantity.chars = <<>> THEN Null
    ELSE LET str == Trim(quantity.chars)
         IN  IF str = <<>> \/ LowerStr(str) \in NotQuantities THEN Null
             ELSE IF IsDecimal(str) THEN ParseFloat(str)
             ELSE IF IsFraction(str) THEN ParseFraction(str)
             ELSE IF IsMixedFraction(str)
             THEN LET e == DigitRunEnd(str, 1)
                      f == ParseFraction(
                               SubSeq(str, SpaceRunEnd(str, e + 1) + 1,
                                      Len(str)))
                  IN  Rat(ParseInt(SubSeq(str, 1, e)) * f.d + f.n, f.d)
             ELSE Null

convertToMetric(quantity, unit) ==
    LET parsedQty == parseQuantity(quantity)
        normalizedUnit == IF unit # <<>> THEN Trim(LowerStr(unit)) ELSE <<>>
        unitType == getUnitType(normalizedUnit)
    IN  IF parsedQty = Null THEN Null
        ELSE IF unitType = "volume"
        THEN [value |-> RMul(parsedQty, VOLUME_CONVERSIONS[normalizedUnit]),
              baseUnit |-> "ml"]
        ELSE IF unitType = "weight"
        THEN [value |-> RMul(parsedQty, WEIGHT_CONVERSIONS[normalizedUnit]),
              baseUnit |-> "g"]
        ELSE Null

findBestMetricUnit(value, baseUnit) ==
    IF baseUnit = "ml"
    THEN IF RGe(value, Rat(1000, 1))
         THEN [quantity |-> RDiv(value, Rat(1000, 1)), unit |-> <<"l">>]
         ELSE [quantity |-> value, unit |-> <<"ml">>]
    ELSE IF RGe(value, Rat(1000, 1))
         THEN [quantity |-> RDiv(value, Rat(1000, 1)), unit |-> <<"kg">>]
         ELSE [quantity |-> value, unit |-> <<"g">>]

\* findBestImperialUnit with strict comparisons
findBestImperialUnitStrict(value, baseUnit) ==
    LET In(unit, table) ==
            [quantity |-> RDiv(value, table[unit]), unit |-> unit]
    IN  IF baseUnit = "ml"
        THEN IF ~RGe(VOLUME_CONVERSIONS[<<"cups">>], value)
             THEN In(<<"cups">>, VOLUME_CONVERSIONS)
             ELSE IF ~RGe(VOLUME_CONVERSIONS[<<"tbsp">>], value)
             THEN In(<<"tbsp">>, VOLUME_CONVERSIONS)
             ELSE IF ~RGe(VOLUME_CONVERSIONS[<<"tsp">>], value)
             THEN In(<<"tsp">>, VOLUME_CONVERSIONS)
             ELSE In(<<"fl", " ", "oz">>, VOLUME_CONVERSIONS)
        ELSE IF ~RGe(WEIGHT_CONVERSIONS[<<"lb">>], value)
             THEN [quantity |-> RDiv(value, WEIGHT_CONVERSIONS[<<"lb">>]),
                   unit |-> <<"lbs">>]
             ELSE In(<<"oz">>, WEIGHT_CONVERSIONS)

findBestImperialUnit(value, baseUnit) ==
    LET In(unit, table) ==
            [quantity |-> RDiv(value, table[unit]), unit |-> unit]
    IN  IF baseUnit = "ml"
        THEN IF RGe(value, VOLUME_CONVERSIONS[<<"cups">>])
             THEN In(<<"cups">>, VOLUME_CONVERSIONS)
             ELSE IF RGe(value, VOLUME_CONVERSIONS[<<"tbsp">>])
             THEN In(<<"tbsp">>, VOLUME_CONVERSIONS)
             ELSE IF RGe(value, VOLUME_CONVERSIONS[<<"tsp">>])
             THEN In(<<"tsp">>, VOLUME_CONVERSIONS)
             ELSE In(<<"fl", " ", "oz">>, VOLUME_CONVERSIONS)
        ELSE IF RGe(value, WEIGHT_CONVERSIONS[<<"lb">>])
             THEN [quantity |-> RDiv(value, WEIGHT_CONVERSIONS[<<"lb">>]),
                   unit |-> <<"lbs">>]
             ELSE In(<<"oz">>, WEIGHT_CONVERSIONS)

\* Math.abs(rounded - Math.round(rounded)) < 0.01 for a rounded of at most
\* two decimals.  In exact arithmetic it holds of whole numbers only; in
\* the double arithmetic of the code it also holds of k.01 and k.99 unless
\* the rounding error of the subtraction falls the other way, which it does
\* for the whole parts listed here (whole parts below 20000).
DoubleErrorUp(k) ==
    k = 1 \/ k \in 16..31 \/ k \in 64..127 \/ k \in 2048..16383

CloseToWhole(rounded) ==
    LET hundredths == RoundTimes(rounded, 100)
        k == hundredths \div 100
    IN  \/ hundredths % 100 = 0
        \/ hundredths % 100 \in {1, 99} /\ ~DoubleErrorUp(k)

\* roundToPrecision rounding to the whole number
roundToWhole(value) ==
    IF ~IsFinite(value) THEN value ELSE Rat(RoundTimes(value, 1), 1)

\* of Infinity and NaN every comparison fails: they are returned as they are
roundToPrecision(value) ==
    IF ~IsFinite(value) THEN value
    ELSE LET rounded == Rat(RoundTimes(value, 100), 100)
         IN  IF RLt(rounded, Rat(1, 1)) /\ rounded.n > 0
             THEN Rat(RoundTimes(value, 10), 10)
             ELSE IF CloseToWhole(rounded)
             THEN Rat(RoundTimes(rounded, 1), 1)
             ELSE rounded

DigitChar(d) == CHOOSE c \in Digits : DigitVal(c) = d

RECURSIVE ToDigits(_)
ToDigits(n) ==
    IF n < 10 THEN <<DigitChar(n)>>
    ELSE ToDigits(n \div 10) \o <<DigitChar(n % 10)>>

\* Number.prototype.toString of a number of at most two decimals
NumberToString(x) ==
    IF x = Infinity THEN <<"Infinity">>
    ELSE IF x = NaN THEN <<"NaN">>
    ELSE LET hundredths == RoundTimes(x, 100)
             decimals == hundredths % 100
         IN  ToDigits(hundredths \div 100)
                 \o (IF decimals = 0 THEN <<>>
                     ELSE IF decimals % 10 = 0
                     THEN <<".", DigitChar(decimals \div 10)>>
                     ELSE <<".", DigitChar(decimals \div 10),
                            DigitChar(decimals % 10)>>)

convertIngredient(ing, target) ==
    IF ing = Null THEN Null
    ELSE IF ing.unit = <<>> THEN Null
    ELSE LET currentSystem == getUnitSystem(ing.unit)
             metricBase == convertToMetric(ing.quantity, ing.unit)
         IN  IF currentSystem = target \/ currentSystem = "neutral" THEN Null
             ELSE IF metricBase = Null THEN Null
             ELSE IF target = "metric"
             THEN LET result == findBestMetricUnit(metricBase.value,
                                                   metricBase.baseUnit)
                  IN  [quantity |->
                           NumberToString(roundToPrecision(result.quantity)),
                       unit |-> result.unit]
             ELSE IF target = "imperial"
             THEN LET result == findBestImperialUnit(metricBase.value,
                                                     metricBase.baseUnit)
                  IN  [quantity |->
                           NumberToString(roundToPrecision(result.quantity)),
                       unit |-> result.unit]
             ELSE Null

(***************************************************************************)
(* The calls of convertIngredient.                                         *)
(***************************************************************************)
MaxNumerator == 3
MaxDenominator == 4

WholeQuantities ==
    {0, 1, 2, 3, 4, 5, 14, 15, 16, 100, 249, 250, 299, 453, 454, 500, 503,
     999, 1000, 1254, 1500}

FractionStrings ==
    {ToDigits(a) \o <<"/">> \o ToDigits(b) :
         a \in 0..MaxNumerator, b \in 0..MaxDenominator}

QuantityStrings ==
    {ToDigits(n) : n \in WholeQuantities}
      \cup FractionStrings
      \cup {<<"1", " ">> \o f : f \in FractionStrings}
      \cup {<<"2", ".", "5">>, <<"0", ".", "5">>, <<"1", ".", "2", "5">>,
            <<"0", ".", "0", "2">>, <<"2", ".">>, <<".", "5">>,
            <<" ", "2", " ">>, <<"2", " ", " ", "1", "/", "2">>,
            <<>>, <<" ">>, <<"to", " ", "taste">>, <<"a", " ", "pinch">>,
            <<"1", "/">>, <<"2", " ", "cups">>, <<"some">>}

Quantities ==
    {StrQuantity(s) : s \in QuantityStrings}
      \cup {NumQuantity(2, 1), NumQuantity(1, 2), NumQuantity(0, 1)}

Units ==
    DOMAIN VOLUME_CONVERSIONS \cup DOMAIN WEIGHT_CONVERSIONS
      \cup {<<"Cups">>, <<"ML">>, <<" ", "ml", " ">>, <<"unit">>,
            <<"pinch">>, <<>>}

TargetSystems == {"metric", "imperial", "neutral"}

Ingredients ==
    {Null} \cup {[quantity |-> q, unit |-> u, name |-> <<"flour">>] :
                     q \in Quantities, u \in Units}

\* convertIngredient has not been called yet
Pending == [pending |-> TRUE]

ConvInit ==
    /\ ingredient \in Ingredients
    /\ targetSystem \in TargetSystems
    /\ converted = Pending
    /\ url = NoUrl
    /\ pc = "idle"
    /\ html = NoPage
    /\ recipeData = Null
    /\ error = ""
    /\ fetches = 0
    /\ axiosError = "none"
    /\ importStatus = ""
    /\ text = <<>>
    /\ ocr = Null
    /\ unitToken = <<>>
    /\ urlUnit = NoResult
    /\ ocrUnit = NoResult
    /\ category = NoCategory
    /\ mapped = NoResult
    /\ db = EmptyDb
    /\ calls = NoCalls
    /\ stored = <<>>
    /\ currentUnitSystem = ""
    /\ localStorage = NoItem
    /\ lastToggle = ""
    /\ view = Null
    /\ form = Null
    /\ updatedAt = 0
    /\ recipeAppData = <<>>
    /\ deleted = {}

\* convertIngredient returns null: nothing to convert
ConvertReturnsNull ==
    /\ converted = Pending
    /\ convertIngredient(ingredient, targetSystem) = Null
    /\ converted' = Null
    /\ UNCHANGED <<ingredient, targetSystem, urlVars, ocrVars,
                 normVars, catVars,
                 appVars>>

\* convertIngredient returns the converted quantity and unit
ConvertReturnsResult ==
    /\ converted = Pending
    /\ convertIngredient(ingredient, targetSystem) # Null
    /\ converted' = convertIngredient(ingredient, targetSystem)
    /\ UNCHANGED <<ingredient, targetSystem, urlVars, ocrVars,
                 normVars, catVars,
                 appVars>>

ConvNext ==
    \/ ConvertReturnsNull
    \/ ConvertReturnsResult

SpecConv == ConvInit /\ [][ConvNext]_vars

(***************************************************************************)
(* Claims about the OCR parser (checked under SpecOcr).                    *)
(***************************************************************************)
Returned == ocr # Null /\ ocr # Thrown

\* the text holds no character other than white space
BlankText(txt) == \A i \in 1..Len(txt) : Trim(txt[i]) = <<>>

\* nothing to recognise: no line is acceptable as a title and the text
\* has no Ingredients-type or Instructions-type heading
NothingRecognised(txt) ==
    LET lines == TrimLines(txt)
    IN  /\ FirstTitleLine(NonEmpty(lines), 1) = 0
        /\ FindHeading(lines, IngredientsHeadings, 1) = 0
        /\ FindHeading(lines, InstructionsHeadings, 1) = 0

\* C6 as claimed: parseRecipeFromText never throws, whatever the text
\* (empty and whitespace-only included), and for input in which nothing can
\* be recognised the record is empty: title 'Untitled Recipe', description
\* '', ingredients [], instructions [].
C6_NeverThrows_Original ==
    ocr # Null =>
        /\ ocr # Thrown
        /\ NothingRecognised(text) =>
               /\ ocr.title = UntitledRecipe
               /\ ocr.description = <<>>
               /\ ocr.ingredients = <<>>
               /\ ocr.instructions = <<>>

RECURSIVE CountMarked(_)
CountMarked(lines) ==
    IF lines = <<>> THEN 0
    ELSE (IF CleanLine(Head(lines)) # <<>> THEN 1 ELSE 0)
             + CountMarked(Tail(lines))

\* C6 (amended): parseRecipeFromText throws exactly when the text is empty
\* or whitespace-only and returns a record for every other text; for input
\* in which nothing can be recognised the title is 'Untitled Recipe', the
\* description is '' and the instructions are [], while the ingredients
\* hold one entry for every line that is not empty once its list markers
\* are removed.
C6_ThrowsOnlyOnBlankText ==
    ocr # Null =>
        /\ (ocr = Thrown) <=> BlankText(text)
        /\ (Returned /\ NothingRecognised(text)) =>
               /\ ocr.title = UntitledRecipe
               /\ ocr.description = <<>>
               /\ ocr.instructions = <<>>
               /\ Len(ocr.ingredients) = CountMarked(TrimLines(text))

C6_Witness ==
    /\ Returned
    /\ NothingRecognised(text)
    /\ ocr.title = UntitledRecipe
    /\ Len(ocr.ingredients) > 0

\* the steps of the scan C7 describes, over the lines after the heading
HasMarker(line) ==
    line # <<>> /\ (Head(line) \in Bullets \/ HasNumberMarker(line))

Emit(steps, cur) == IF cur = <<>> THEN steps ELSE Append(steps, cur)

AppendTo(cur, more) ==
    IF cur = <<>> THEN more
    ELSE IF more = <<>> THEN cur
    ELSE cur \o <<Space>> \o more

RECURSIVE ClaimedSteps(_, _, _, _, _)
ClaimedSteps(lines, i, steps, cur, open) ==
    IF i > Len(lines) \/ IsHeading(lines[i], NotesHeadings)
    THEN Emit(steps, cur)
    ELSE IF lines[i] = <<>>
    THEN ClaimedSteps(lines, i + 1, steps, cur, open)
    ELSE IF ~open \/ HasMarker(lines[i]) \/ (i > 1 /\ lines[i - 1] = <<>>)
    THEN ClaimedSteps(lines, i + 1, Emit(steps, cur), CleanLine(lines[i]),
                      TRUE)
    ELSE ClaimedSteps(lines, i + 1, steps,
                      AppendTo(cur, CleanLine(lines[i])), TRUE)

LinesAfterInstructionsHeading(txt) ==
    LET lines == TrimLines(TrimText(txt))
        h == FindHeading(lines, InstructionsHeadings, 1)
    IN  SubSeq(lines, h + 1, Len(lines))

HasInstructionsHeading(txt) ==
    FindHeading(TrimLines(TrimText(txt)), InstructionsHeadings, 1) # 0

\* C7: after an Instructions-type heading the steps are those of the scan:
\* lines up to the first Notes/Tips/Nutrition/Source heading; a line starts
\* a new step exactly when the previous line was blank or the line carries
\* a bullet/number marker; every other non-empty line is appended, after one
\* space, to the current step; markers are stripped, no step is empty.
C7_InstructionSteps ==
    (Returned /\ HasInstructionsHeading(text)) =>
        ocr.instructions =
            ClaimedSteps(LinesAfterInstructionsHeading(text), 1, <<>>, <<>>,
                         FALSE)

\* the ingredient section C8 describes
IngredientSection(txt) ==
    LET lines == TrimLines(TrimText(txt))
        h == FindHeading(lines, IngredientsHeadings, 1)
        e == IF h = 0 THEN 0
             ELSE FindHeading(lines, InstructionsHeadings, h + 1)
    IN  IF h = 0 THEN lines
        ELSE SubSeq(lines, h + 1, IF e # 0 THEN e - 1 ELSE Len(lines))

\* a list-number marker N. or N): digits, then "." or ")", not the start of
\* a decimal number
IsListNumber(line) ==
    LET e == DigitRunEnd(line, 1)
    IN  /\ e >= 1 /\ e < Len(line)
        /\ line[e + 1] \in {".", ")"}
        /\ ~(line[e + 1] = "." /\ e + 2 <= Len(line) /\ line[e + 2] \in Digits)

OnlyMarkerRemoved(line) ==
    LET b == StripBullet(line)
    IN  Trim(IF IsListNumber(b)
             THEN TrimStart(SubSeq(b, DigitRunEnd(b, 1) + 2, Len(b)))
             ELSE b)

\* a line that gives an entry: not empty, not a section header, and not
\* empty once its marker is removed
GivesEntry(line) ==
    /\ line # <<>>
    /\ ~IsHeading(line, IngredientLineSkipHeadings)
    /\ OnlyMarkerRemoved(line) # <<>>

RECURSIVE ClaimedIngredients(_)
ClaimedIngredients(lines) ==
    IF lines = <<>> THEN <<>>
    ELSE IF ~GivesEntry(Head(lines)) THEN ClaimedIngredients(Tail(lines))
    ELSE <<OcrParseIngredientText(OnlyMarkerRemoved(Head(lines)))>>
             \o ClaimedIngredients(Tail(lines))

\* C8: one ingredient, in order, per non-empty line of the ingredient
\* section (section headers and lines holding nothing but a marker apart),
\* parsed from the line with only a leading bullet or list-number marker
\* (N. / N)) removed, so that the quantity at the start of the rest
\* (integer, decimal, fraction, mixed number) is kept intact.
C8_IngredientPerLine ==
    Returned => ocr.ingredients = ClaimedIngredients(IngredientSection(text))

\* the line extractTitle chose, as an index into the trimmed lines (0: none)
RECURSIVE TitleLineIndex(_, _)
TitleLineIndex(lines, i) ==
    IF i > Len(lines) THEN 0
    ELSE IF lines[i] # <<>> /\ ~TitleSkips(lines[i]) THEN i
    ELSE TitleLineIndex(lines, i + 1)

\* C9: the description consists only of the non-empty lines strictly after
\* the title line and strictly before the first Ingredients heading, without
\* the lines that look like time/yield metadata; it never contains the
\* title line or a line that precedes it.
C9_DescriptionBetweenTitleAndIngredients ==
    LET lines == TrimLines(TrimText(text))
        t == TitleLineIndex(lines, 1)
        h == FindHeading(lines, IngredientsHeadings, 1)
    IN  (Returned /\ t # 0) =>
            ocr.description =
                Substring(JoinLines(DropMetadata(NonEmpty(
                              IF h > t + 1 THEN SubSeq(lines, t + 1, h - 1)
                              ELSE <<>>))),
                          DescriptionLimit)

(***************************************************************************)
(* Claims about unit conversion (checked under SpecConv).                  *)
(***************************************************************************)
\* the ingredient is convertible: its unit belongs to the other system and
\* its quantity is parsable
Convertible(ing, target) ==
    /\ ing # Null
    /\ ing.unit # <<>>
    /\ target \in {"metric", "imperial"}
    /\ getUnitSystem(ing.unit) \notin {target, "neutral"}
    /\ parseQuantity(ing.quantity) # Null
    /\ IsFinite(parseQuantity(ing.quantity))

IsVolumeUnit(unit) == Trim(LowerStr(unit)) \in DOMAIN VOLUME_CONVERSIONS

FactorOf(unit) ==
    IF IsVolumeUnit(unit) THEN VOLUME_CONVERSIONS[Trim(LowerStr(unit))]
    ELSE WEIGHT_CONVERSIONS[Trim(LowerStr(unit))]

\* q x unit factor, in ml or g
MetricBaseValue(ing) == RMul(parseQuantity(ing.quantity), FactorOf(ing.unit))

\* the unit C10 names for a value of the metric base
BestUnit(ing, target) ==
    LET v == MetricBaseValue(ing)
        AtLeastOne(unit) == RGe(RDiv(v, FactorOf(unit)), Rat(1, 1))
    IN  IF target = "metric"
        THEN IF IsVolumeUnit(ing.unit)
             THEN IF RLt(v, Rat(1000, 1)) THEN <<"ml">> ELSE <<"l">>
             ELSE IF RLt(v, Rat(1000, 1)) THEN <<"g">> ELSE <<"kg">>
        ELSE IF IsVolumeUnit(ing.unit)
             THEN IF AtLeastOne(<<"cups">>) THEN <<"cups">>
                  ELSE IF AtLeastOne(<<"tbsp">>) THEN <<"tbsp">>
                  ELSE IF AtLeastOne(<<"tsp">>) THEN <<"tsp">>
                  ELSE <<"fl", " ", "oz">>
             ELSE IF AtLeastOne(<<"lbs">>) THEN <<"lbs">> ELSE <<"oz">>

Example(quantity, unit, target, toQuantity, toUnit) ==
    (/\ converted # Pending
     /\ ingredient # Null
     /\ ingredient.quantity = StrQuantity(quantity)
     /\ ingredient.unit = unit
     /\ targetSystem = target)
        => converted = [quantity |-> toQuantity, unit |-> toUnit]

\* C10: for every convertible ingredient convertIngredient re-expresses the
\* metric-base value (q x unit factor) in the best unit of the target
\* system: ml below 1000 ml and l from 1000 ml, g below 1000 g and kg from
\* 1000 g; for imperial volume the largest of cups, tbsp, tsp whose quantity
\* is at least 1 and fl oz when none is; for imperial weight lbs from one
\* pound and oz below.  2 cups -> 500 ml, 1 tbsp -> 15 ml, 1/2 cups ->
\* 125 ml, 500 ml -> 2 cups.
C10_BestUnitOfTargetSystem ==
    /\ (converted # Pending /\ Convertible(ingredient, targetSystem)) =>
           /\ converted # Null
           /\ converted.unit = BestUnit(ingredient, targetSystem)
           /\ converted.quantity =
                  NumberToString(roundToPrecision(
                      RDiv(MetricBaseValue(ingredient),
                           FactorOf(converted.unit))))
    /\ Example(<<"2">>, <<"cups">>, "metric", <<"5", "0", "0">>, <<"ml">>)
    /\ Example(<<"1">>, <<"tbsp">>, "metric", <<"1", "5">>, <<"ml">>)
    /\ Example(<<"1", "/", "2">>, <<"cups">>, "metric", <<"1", "2", "5">>,
               <<"ml">>)
    /\ Example(<<"5", "0", "0">>, <<"ml">>, "imperial", <<"2">>, <<"cups">>)

\* 250 ml, exactly one cup, converted to imperial
C10_Witness ==
    /\ ingredient # Null
    /\ ingredient.quantity = StrQuantity(<<"2", "5", "0">>)
    /\ ingredient.unit = <<"ml">>
    /\ targetSystem = "imperial"
    /\ converted = [quantity |-> <<"1">>, unit |-> <<"cups">>]

\* a non-empty run of digits
DigitString(s) == s # <<>> /\ AllDigits(s)

\* a/b with b not zero
DenotesFraction(s) ==
    \E i \in 1..Len(s) :
        /\ s[i] = "/"
        /\ DigitString(SubSeq(s, 1, i - 1))
        /\ DigitString(SubSeq(s, i + 1, Len(s)))
        /\ ParseInt(SubSeq(s, i + 1, Len(s))) # 0

\* the quantity denotes a number: it is a number, or the text of an integer,
\* a decimal, a fraction or a mixed number
DenotesNumber(quantity) ==
    \/ quantity.kind = "number"
    \/ LET s == Trim(quantity.chars)
       IN  \/ DigitString(s)
           \/ \E i \in 1..Len(s) :
                  /\ s[i] = "."
                  /\ DigitString(SubSeq(s, 1, i - 1))
                  /\ AllDigits(SubSeq(s, i + 1, Len(s)))
           \/ DenotesFraction(s)
           \/ \E i, j \in 1..Len(s) :
                  /\ i <= j
                  /\ DigitString(SubSeq(s, 1, i - 1))
                  /\ \A k \in i..j : s[k] = Space
                  /\ DenotesFraction(SubSeq(s, j + 1, Len(s)))

NeutralUnit(unit) ==
    Trim(LowerStr(unit)) \notin metricUnits \cup imperialUnits

UnitOfSystem(unit, system) ==
    Trim(LowerStr(unit)) \in
        (IF system = "metric" THEN metricUnits ELSE imperialUnits)

\* C11: for every ingredient and targetSystem in {metric, imperial},
\* convertIngredient returns null exactly when the unit is neutral (empty,
\* "unit", unrecognised), or the unit already belongs to targetSystem, or
\* the quantity is not parsable as a number; in every other case it returns
\* a non-null {quantity, unit}.
C11_NullExactlyWhenUnconvertible ==
    (/\ converted # Pending
     /\ ingredient # Null
     /\ targetSystem \in {"metric", "imperial"})
        => /\ converted = Null
               <=> \/ NeutralUnit(ingredient.unit)
                   \/ UnitOfSystem(ingredient.unit, targetSystem)
                   \/ ~DenotesNumber(ingredient.quantity)
           /\ converted # Null => DOMAIN converted = {"quantity", "unit"}

\* the value convertIngredient displays: the metric-base value in the unit
\* of the result
ConvertedValue ==
    RDiv(MetricBaseValue(ingredient), FactorOf(converted.unit))

\* C12: for every converted value v >= 0 the displayed quantity string is v
\* rounded to 2 decimal places, trailing zeros suppressed, except that it is
\* the nearest integer when the rounded value is within 0.01 of that
\* integer.  (For a rounded value exactly 0.01 away from an integer either
\* string is accepted.)
C12_RoundedToTwoDecimals ==
    (/\ converted # Pending
     /\ converted # Null
     /\ IsFinite(ConvertedValue))
        => LET hundredths == RoundTimes(ConvertedValue, 100)
               twoDecimals == NumberToString(Rat(hundredths, 100))
               nearestInteger == ToDigits((hundredths + 50) \div 100)
           IN  IF hundredths % 100 \in {1, 99}
               THEN converted.quantity \in {twoDecimals, nearestInteger}
               ELSE converted.quantity = twoDecimals

RAdd(a, b) == Rat(a.n * b.d + b.n * a.d, a.d * b.d)

\* |a - b| <= t, for finite numbers
Within(a, b, t) == RGe(RAdd(b, t), a) /\ RGe(RAdd(a, t), b)

\* a metric volume ingredient with a parsable quantity has been converted to
\* imperial
MetricVolumeConverted ==
    /\ converted # Pending
    /\ converted # Null
    /\ targetSystem = "imperial"
    /\ Trim(LowerStr(ingredient.unit)) \in {<<"ml">>, <<"l">>}
    /\ IsFinite(parseQuantity(ingredient.quantity))

\* the result converted back to metric
ConvertedBack ==
    convertIngredient([quantity |-> StrQuantity(converted.quantity),
                       unit |-> converted.unit,
                       name |-> ingredient.name], "metric")

\* the quantity converted back, in ml
ConvertedBackValue ==
    RMul(parseQuantity(StrQuantity(ConvertedBack.quantity)),
         FactorOf(ConvertedBack.unit))

\* C13 as claimed: converting a metric volume ingredient (ml or l, parsable
\* quantity q) to imperial and the result back to metric yields a quantity
\* that, expressed in the original unit, differs from q by at most 1.
C13_RoundTripWithinOne ==
    MetricVolumeConverted =>
        /\ ConvertedBack # Null
        /\ Within(RDiv(ConvertedBackValue, FactorOf(ingredient.unit)),
                  parseQuantity(ingredient.quantity), Rat(1, 1))

\* C13 (amended): the quantity converted back differs from the original by
\* at most 20 ml (0.02 when the original unit is l): each of the two
\* conversions rounds to two decimals of its display unit and snaps to a
\* whole number.
C13_RoundTripWithinTwentyMl ==
    MetricVolumeConverted =>
        /\ ConvertedBack # Null
        /\ Within(ConvertedBackValue, MetricBaseValue(ingredient),
                  Rat(20, 1))

\* 503 ml is displayed as 2 cups, which are 500 ml
C13_Witness ==
    /\ MetricVolumeConverted
    /\ ingredient.quantity = StrQuantity(<<"5", "0", "3">>)
    /\ ingredient.unit = <<"ml">>
    /\ converted = [quantity |-> <<"2">>, unit |-> <<"cups">>]
    /\ ConvertedBack = [quantity |-> <<"5", "0", "0">>, unit |-> <<"ml">>]

\* convertIngredient went as far as convertToMetric, which called
\* parseQuantity on the quantity string of the ingredient
QuantityParsed ==
    /\ converted # Pending
    /\ ingredient # Null
    /\ ingredient.quantity.kind = "string"
    /\ ingredient.unit # <<>>
    /\ getUnitSystem(ingredient.unit) \notin {targetSystem, "neutral"}

\* a/b of the text "a/b"
FractionValue(s) ==
    LET i == CHOOSE k \in 1..Len(s) : s[k] = "/"
    IN  Rat(ParseInt(SubSeq(s, 1, i - 1)), ParseInt(SubSeq(s, i + 1, Len(s))))

\* "w a/b": digits, blanks, a fraction
DenotesMixed(s) ==
    \E i, j \in 1..Len(s) :
        /\ i <= j
        /\ DigitString(SubSeq(s, 1, i - 1))
        /\ \A k \in i..j : s[k] = Space
        /\ DenotesFraction(SubSeq(s, j + 1, Len(s)))

\* what C17 says parseQuantity(s) is
ClaimedQuantity(s) ==
    LET str == Trim(s)
    IN  IF DenotesNumber(StrQuantity(str)) /\ ~DenotesFraction(str)
               /\ ~DenotesMixed(str)
        THEN ParseFloat(str)
        ELSE IF DenotesFraction(str) THEN FractionValue(str)
        ELSE IF DenotesMixed(str)
        THEN LET i == CHOOSE k \in 1..Len(str) : str[k] = Space
                 j == CHOOSE k \in 1..Len(str) :
                          str[k] = Space /\ str[k + 1] # Space
             IN  RAdd(Rat(ParseInt(SubSeq(str, 1, i - 1)), 1),
                      FractionValue(SubSeq(str, j + 1, Len(str))))
        ELSE Null

\* C17: for every string s, parseQuantity(s) is the number n when s is a
\* plain integer or decimal, a/b when s is a simple fraction, w + a/b when s
\* is a mixed number, and null for the empty string, for "to taste", "a
\* pinch" and for every other text.
C17_ParseQuantity ==
    QuantityParsed =>
        parseQuantity(ingredient.quantity)
            = ClaimedQuantity(ingredient.quantity.chars)

\* the same for the texts whose denominator is not 0
C17_ExceptZeroDenominator ==
    (QuantityParsed /\ (parseQuantity(ingredient.quantity) = Null
                          \/ IsFinite(parseQuantity(ingredient.quantity))))
        => C17_ParseQuantity

\* the units convertIngredient may answer with, by target system
ResultUnits(target) ==
    IF target = "metric" THEN {<<"ml">>, <<"l">>, <<"g">>, <<"kg">>}
    ELSE {<<"cups">>, <<"tbsp">>, <<"tsp">>, <<"fl", " ", "oz">>, <<"oz">>,
          <<"lbs">>}

\* digits, optionally followed by a point and digits: the decimal string of
\* a finite number that is not negative
DecimalString(s) == IsDecimal(s) /\ s[Len(s)] \in Digits

\* convertIngredient has answered with a result for a target system
ResultReturned ==
    /\ converted # Pending
    /\ converted # Null
    /\ targetSystem \in {"metric", "imperial"}

\* C27: every non-null result of convertIngredient is well-formed: its unit
\* belongs to the target system and is one of the canonical units (metric:
\* ml, l, g, kg; imperial: cups, tbsp, tsp, fl oz, oz, lbs), and its
\* quantity is the decimal string of a finite, non-negative number, never
\* "NaN" or "Infinity".
C27_ResultWellFormed ==
    ResultReturned =>
        /\ converted.unit \in ResultUnits(targetSystem)
        /\ getUnitSystem(converted.unit) = targetSystem
        /\ DecimalString(converted.quantity)

\* C27, for the quantities that parseQuantity reads as a finite number
C27_ExceptZeroDenominator ==
    (ResultReturned /\ IsFinite(parseQuantity(ingredient.quantity)))
        => C27_ResultWellFormed

\* C27: the unit of every result is as claimed
C27_ResultUnit ==
    ResultReturned =>
        /\ converted.unit \in ResultUnits(targetSystem)
        /\ getUnitSystem(converted.unit) = targetSystem

(***************************************************************************)
(* Unit normalisation: normalizeUnit of parser.js and normalizeUnit of     *)
(* recipeTextParser.js (OcrNormalizeUnit above), called on one token.      *)
(***************************************************************************)
\* unitMap of parser.js
UrlUnitMap ==
    (<<"cup">> :> <<"cups">>) @@ (<<"cups">> :> <<"cups">>)
      @@ (<<"tablespoon">> :> <<"tbsp">>) @@ (<<"tablespoons">> :> <<"tbsp">>)
      @@ (<<"teaspoon">> :> <<"tsp">>) @@ (<<"teaspoons">> :> <<"tsp">>)
      @@ (<<"fluid", " ", "ounce">> :> <<"fl", " ", "oz">>)
      @@ (<<"fluid", " ", "ounces">> :> <<"fl", " ", "oz">>)
      @@ (<<"milliliter">> :> <<"ml">>) @@ (<<"milliliters">> :> <<"ml">>)
      @@ (<<"millilitre">> :> <<"ml">>) @@ (<<"millilitres">> :> <<"ml">>)
      @@ (<<"gram">> :> <<"g">>) @@ (<<"grams">> :> <<"g">>)
      @@ (<<"kilogram">> :> <<"kg">>) @@ (<<"kilograms">> :> <<"kg">>)
      @@ (<<"ounce">> :> <<"oz">>) @@ (<<"ounces">> :> <<"oz">>)
      @@ (<<"pound">> :> <<"lbs">>) @@ (<<"pounds">> :> <<"lbs">>)
      @@ (<<"lb">> :> <<"lbs">>)

\* normalizeUnit of parser.js
normalizeUnit(unit) ==
    IF unit = <<>> THEN <<>>
    ELSE LET normalized == Trim(LowerStr(unit))
         IN  IF normalized \in DOMAIN UrlUnitMap THEN UrlUnitMap[normalized]
             ELSE IF Len(normalized) = 1 /\ normalized[1] \in InheritedKeys
             THEN <<InheritedValue>>
             ELSE normalized

MaxPadding == 1

UnitWords ==
    {"cup", "cups", "c", "tablespoon", "tablespoons", "tbsp", "tbs",
     "teaspoon", "teaspoons", "tsp", "ounce", "ounces", "oz", "pound",
     "pounds", "lb", "lbs", "gram", "grams", "g", "kilogram", "kilograms",
     "kg", "milliliter", "milliliters", "millilitre", "millilitres", "ml",
     "liter", "liters", "l", "unit", "pinch", "clove", "Tbs", "Cups",
     "Pinch", "ML", "constructor"}

BaseTokens ==
    {<<w>> : w \in UnitWords}
      \cup {<<w, ".">> : w \in {"Tbs", "tsp", "pinch"}}
      \cup {<<"fluid", " ", "ounce">>, <<"fluid", " ", "ounces">>,
            <<"fl", " ", "oz">>, <<".">>}

Spaces(k) == [i \in 1..k |-> Space]

UnitTokens ==
    {<<>>} \cup {Spaces(a) \o b \o Spaces(c) :
                     a \in 0..MaxPadding, c \in 0..MaxPadding,
                     b \in BaseTokens}

NormInit ==
    /\ unitToken \in UnitTokens
    /\ urlUnit = NoResult
    /\ ocrUnit = NoResult
    /\ url = NoUrl
    /\ pc = "idle"
    /\ html = NoPage
    /\ recipeData = Null
    /\ error = ""
    /\ fetches = 0
    /\ axiosError = "none"
    /\ importStatus = ""
    /\ text = <<>>
    /\ ocr = Null
    /\ ingredient = Null
    /\ targetSystem = ""
    /\ converted = Null
    /\ category = NoCategory
    /\ mapped = NoResult
    /\ db = EmptyDb
    /\ calls = NoCalls
    /\ stored = <<>>
    /\ currentUnitSystem = ""
    /\ localStorage = NoItem
    /\ lastToggle = ""
    /\ view = Null
    /\ form = Null
    /\ updatedAt = 0
    /\ recipeAppData = <<>>
    /\ deleted = {}

\* the URL parser normalises the token
NormalizeUrl ==
    /\ ~urlUnit.done
    /\ urlUnit' = Result(normalizeUnit(unitToken))
    /\ UNCHANGED <<unitToken, ocrUnit, urlVars, ocrVars, convVars, catVars,
                 appVars>>

\* the OCR parser normalises the token
NormalizeOcr ==
    /\ ~ocrUnit.done
    /\ ocrUnit' = Result(OcrNormalizeUnit(unitToken))
    /\ UNCHANGED <<unitToken, urlUnit, urlVars, ocrVars, convVars, catVars,
                 appVars>>

NormNext ==
    \/ NormalizeUrl
    \/ NormalizeOcr

SpecNorm == NormInit /\ [][NormNext]_vars

(***************************************************************************)
(* Claims about unit normalisation (checked under SpecNorm).               *)
(***************************************************************************)
CanonicalUnits ==
    {<<"cups">>, <<"tbsp">>, <<"tsp">>, <<"fl", " ", "oz">>, <<"ml">>,
     <<"l">>, <<"g">>, <<"kg">>, <<"oz">>, <<"lbs">>, <<"unit">>}

\* the known spellings (singular, plural, abbreviated) of the canonical units
KnownSpellings ==
    [c \in CanonicalUnits |->
        CASE c = <<"cups">> -> {<<"cup">>, <<"cups">>, <<"c">>}
          [] c = <<"tbsp">> -> {<<"tablespoon">>, <<"tablespoons">>,
                                <<"tbsp">>, <<"tbs">>}
          [] c = <<"tsp">> -> {<<"teaspoon">>, <<"teaspoons">>, <<"tsp">>}
          [] c = <<"fl", " ", "oz">> ->
                 {<<"fluid", " ", "ounce">>, <<"fluid", " ", "ounces">>,
                  <<"fl", " ", "oz">>}
          [] c = <<"ml">> -> {<<"milliliter">>, <<"milliliters">>,
                              <<"millilitre">>, <<"millilitres">>, <<"ml">>}
          [] c = <<"l">> -> {<<"liter">>, <<"liters">>, <<"l">>}
          [] c = <<"g">> -> {<<"gram">>, <<"grams">>, <<"g">>}
          [] c = <<"kg">> -> {<<"kilogram">>, <<"kilograms">>, <<"kg">>}
          [] c = <<"oz">> -> {<<"ounce">>, <<"ounces">>, <<"oz">>}
          [] c = <<"lbs">> -> {<<"pound">>, <<"pounds">>, <<"lb">>, <<"lbs">>}
          [] c = <<"unit">> -> {<<"unit">>}]

\* what C14 says of the result r of normalising token t
NormalizedAsClaimed(t, r) ==
    LET n == Trim(LowerStr(t))
    IN  IF \E c \in CanonicalUnits : n \in KnownSpellings[c]
        THEN \E c \in CanonicalUnits : n \in KnownSpellings[c] /\ r = c
        ELSE r \in {t, n}

\* C14: for each of the two normalizeUnit functions and every token t: if t,
\* lower-cased and trimmed, is a known spelling, the result is the
\* corresponding canonical unit; otherwise the result is t itself (accepted
\* here also in its lower-cased and trimmed form); the function never
\* throws.
C14_CanonicalOrUnchanged ==
    /\ urlUnit.done => NormalizedAsClaimed(unitToken, urlUnit.value)
    /\ ocrUnit.done => NormalizedAsClaimed(unitToken, ocrUnit.value)

HasTrailingPeriod(t) == t # <<>> /\ t[Len(t)] = "."

\* C15: the OCR path and the URL-import path share one unit normalisation:
\* for every token without a trailing period both normalizeUnit functions
\* return the same result.
C15_SameNormalization ==
    (urlUnit.done /\ ocrUnit.done /\ ~HasTrailingPeriod(Trim(unitToken)))
        => urlUnit.value = ocrUnit.value

(***************************************************************************)
(* mapCategory of parser.js, called on one recipeCategory value.           *)
(* A category is absent (undefined, null), a string (chars) or an array of *)
(* strings (items).                                                        *)
(***************************************************************************)
StringCategory(s) == [kind |-> "string", chars |-> s, items |-> <<>>]
ArrayCategory(a) == [kind |-> "array", chars |-> <<>>, items |-> a]

\* categoryMap
categoryMap ==
    (<<"breakfast">> :> <<"Breakfast">>) @@ (<<"brunch">> :> <<"Breakfast">>)
      @@ (<<"lunch">> :> <<"Lunch">>) @@ (<<"luncheon">> :> <<"Lunch">>)
      @@ (<<"dinner">> :> <<"Dinner">>)
      @@ (<<"mains">> :> <<"Main", " ", "Course">>)
      @@ (<<"main">> :> <<"Main", " ", "Course">>)
      @@ (<<"main", " ", "course">> :> <<"Main", " ", "Course">>)
      @@ (<<"main", " ", "dish">> :> <<"Main", " ", "Course">>)
      @@ (<<"entree">> :> <<"Main", " ", "Course">>)
      @@ (<<"entrée">> :> <<"Main", " ", "Course">>)
      @@ (<<"supper">> :> <<"Dinner">>)
      @@ (<<"dessert">> :> <<"Dessert">>) @@ (<<"desserts">> :> <<"Dessert">>)
      @@ (<<"sweet">> :> <<"Dessert">>) @@ (<<"sweets">> :> <<"Dessert">>)
      @@ (<<"baking">> :> <<"Dessert">>)
      @@ (<<"snack">> :> <<"Snack">>) @@ (<<"snacks">> :> <<"Snack">>)
      @@ (<<"appetizer">> :> <<"Appetizer">>)
      @@ (<<"appetizers">> :> <<"Appetizer">>)
      @@ (<<"starter">> :> <<"Appetizer">>)
      @@ (<<"starters">> :> <<"Appetizer">>)
      @@ (<<"hors", " ", "d", "'", "oeuvre">> :> <<"Appetizer">>)
      @@ (<<"finger", " ", "food">> :> <<"Appetizer">>)
      @@ (<<"beverage">> :> <<"Beverage">>)
      @@ (<<"beverages">> :> <<"Beverage">>)
      @@ (<<"drink">> :> <<"Beverage">>) @@ (<<"drinks">> :> <<"Beverage">>)
      @@ (<<"cocktail">> :> <<"Beverage">>)
      @@ (<<"cocktails">> :> <<"Beverage">>)
      @@ (<<"soup">> :> <<"Soups">>) @@ (<<"soups">> :> <<"Soups">>)
      @@ (<<"salad">> :> <<"Salads">>) @@ (<<"salads">> :> <<"Salads">>)
      @@ (<<"side">> :> <<"Sides">>) @@ (<<"sides">> :> <<"Sides">>)
      @@ (<<"side", " ", "dish">> :> <<"Sides">>)
      @@ (<<"bread">> :> <<"Breads">>) @@ (<<"breads">> :> <<"Breads">>)
      @@ (<<"pasta">> :> <<"Pasta">>) @@ (<<"seafood">> :> <<"Seafood">>)
      @@ (<<"vegetarian">> :> <<"Vegetarian">>)
      @@ (<<"vegan">> :> <<"Vegan">>)

\* categoryMap[normalized], own keys and the keys inherited from
\* Object.prototype; Undefined when there is none
CategoryLookup(normalized) ==
    IF normalized \in DOMAIN categoryMap THEN categoryMap[normalized]
    ELSE IF Len(normalized) = 1 /\ normalized[1] \in InheritedKeys
    THEN <<InheritedValue>>
    ELSE Undefined

\* charAt(0).toUpperCase() of a word, followed by the rest of the word
UpperFirst(a) ==
    CASE a = "totally" -> "Totally"
      [] a = "thai" -> "Thai"
      [] a = "keto" -> "Keto"
      [] a = "dinner" -> "Dinner"
      [] a = "constructor" -> "Constructor"
      [] OTHER -> a

\* categoryStr.charAt(0).toUpperCase() + categoryStr.slice(1)
TitleCase(categoryStr) == <<UpperFirst(Head(categoryStr))>> \o Tail(categoryStr)

\* Array.isArray(category) ? category[0] : category; <<>> is '' or undefined
CategoryStr(c) ==
    IF c.kind = "array"
    THEN (IF c.items = <<>> THEN <<>> ELSE c.items[1])
    ELSE c.chars

mapCategory(c) ==
    IF c.kind = "absent" \/ (c.kind = "string" /\ c.chars = <<>>)
    THEN <<"Other">>
    ELSE LET categoryStr == CategoryStr(c)
         IN  IF categoryStr = <<>> THEN <<"Other">>
             ELSE LET normalized == Trim(LowerStr(categoryStr))
                  IN  IF CategoryLookup(normalized) # Undefined
                      THEN CategoryLookup(normalized)
                      ELSE TitleCase(categoryStr)

MaxCategories == 2

CategoryStrings ==
    LET base == DOMAIN categoryMap
                  \cup {<<"Dinner">>, <<"DINNER">>, <<"Entrée">>,
                        <<"Main", " ", "Course">>, <<"Starters">>,
                        <<"Drinks">>, <<"thai">>, <<"Thai">>, <<"keto">>,
                        <<"totally", "-", "novel", "-", "category">>,
                        <<"dinner", " ", "party">>,
                        <<"Dinner", ",", " ", "Main", " ", "Course">>,
                        <<"constructor">>, <<>>}
    IN  {Spaces(a) \o b \o Spaces(c) :
             a \in 0..MaxPadding, c \in 0..MaxPadding, b \in base}

ArrayItems ==
    {<<>>, <<"dinner">>, <<"Starters">>, <<"thai">>, <<" ", "Drinks">>,
     <<"totally", "-", "novel", "-", "category">>}

Categories ==
    {NoCategory}
      \cup {StringCategory(s) : s \in CategoryStrings}
      \cup {ArrayCategory(a) :
                a \in UNION {[1..n -> ArrayItems] : n \in 0..MaxCategories}}

CatInit ==
    /\ category \in Categories
    /\ mapped = NoResult
    /\ unitToken = <<>>
    /\ urlUnit = NoResult
    /\ ocrUnit = NoResult
    /\ url = NoUrl
    /\ pc = "idle"
    /\ html = NoPage
    /\ recipeData = Null
    /\ error = ""
    /\ fetches = 0
    /\ axiosError = "none"
    /\ importStatus = ""
    /\ text = <<>>
    /\ ocr = Null
    /\ ingredient = Null
    /\ targetSystem = ""
    /\ converted = Null
    /\ db = EmptyDb
    /\ calls = NoCalls
    /\ stored = <<>>
    /\ currentUnitSystem = ""
    /\ localStorage = NoItem
    /\ lastToggle = ""
    /\ view = Null
    /\ form = Null
    /\ updatedAt = 0
    /\ recipeAppData = <<>>
    /\ deleted = {}

\* return 'Other'
MapCategoryOther ==
    /\ ~mapped.done
    /\ category.kind = "absent" \/ CategoryStr(category) = <<>>
    /\ mapped' = Result(mapCategory(category))
    /\ UNCHANGED <<category, urlVars, ocrVars, convVars, normVars,
                 appVars>>

\* return categoryMap[normalized]
MapCategoryMapped ==
    /\ ~mapped.done
    /\ category.kind # "absent" /\ CategoryStr(category) # <<>>
    /\ CategoryLookup(Trim(LowerStr(CategoryStr(category)))) # Undefined
    /\ mapped' = Result(mapCategory(category))
    /\ UNCHANGED <<category, urlVars, ocrVars, convVars, normVars,
                 appVars>>

\* return the unknown category in Title Case
MapCategoryPreserved ==
    /\ ~mapped.done
    /\ category.kind # "absent" /\ CategoryStr(category) # <<>>
    /\ CategoryLookup(Trim(LowerStr(CategoryStr(category)))) = Undefined
    /\ mapped' = Result(mapCategory(category))
    /\ UNCHANGED <<category, urlVars, ocrVars, convVars, normVars,
                 appVars>>

CatNext ==
    \/ MapCategoryOther
    \/ MapCategoryMapped
    \/ MapCategoryPreserved

SpecCat == CatInit /\ [][CatNext]_vars

(***************************************************************************)
(* Claims about mapCategory (checked under SpecCat).                       *)
(***************************************************************************)
\* the string the claim speaks of: the input, or the first element of the
\* array; <<>> for empty input
CategoryInput ==
    IF category.kind = "array"
    THEN (IF category.items = <<>> THEN <<>> ELSE category.items[1])
    ELSE category.chars

\* C16: for every input (absent, string, array) mapCategory returns a
\* non-empty category string and never throws: 'Other' for empty input, the
\* label of the table when the lower-cased, trimmed input is a listed
\* synonym, otherwise the input itself with its first character capitalised.
C16_CategoryResolved ==
    mapped.done =>
        /\ mapped.value # <<>>
        /\ IF CategoryInput = <<>> THEN mapped.value = <<"Other">>
           ELSE IF Trim(LowerStr(CategoryInput)) \in DOMAIN categoryMap
           THEN mapped.value = categoryMap[Trim(LowerStr(CategoryInput))]
           ELSE mapped.value = TitleCase(CategoryInput)

\* the same, for inputs that are no key inherited from Object.prototype
C16_ExceptInheritedKeys ==
    (mapped.done /\ Trim(LowerStr(CategoryInput)) # <<"constructor">>)
        => C16_CategoryResolved

(***************************************************************************)
(* The Recipe model (backend/models/Recipe.js) on the SQLite schema        *)
(* (db/schema.sql).  Every db.runAsync / getAsync / allAsync is one atomic *)
(* statement on the single connection (db/connection.js, foreign keys on,  *)
(* no transaction); the statements of calls in progress interleave at the  *)
(* awaits.  The ingredients and instructions tables are kept in rowid      *)
(* order; a tag's id is stood for by its name.                             *)
(***************************************************************************)
MaxRows == 1

Callers == {1, 2}
RecipeId == "recipe_1"

Flour == [quantity |-> "2", unit |-> "cups", name |-> "flour"]
Salt == [quantity |-> "", unit |-> "", name |-> "salt"]
Eggs == [quantity |-> "3", unit |-> "", name |-> "eggs"]

\* the first k elements of a sequence
Prefix(s, k) == SubSeq(s, 1, IF k < Len(s) THEN k ELSE Len(s))

\* a recipe record as the client sends it, in three versions with k
\* ingredients, instructions and tags each
RecipeOf(version, k) ==
    [id |-> RecipeId,
     title |-> version,
     description |-> "",
     category |-> "Dinner",
     prepTime |-> 15,
     cookTime |-> 30,
     additionalTime |-> 10,
     servings |-> 4,
     imageUrl |-> "",
     sourceUrl |-> PageUrl,
     notes |-> "",
     ingredients |->
         Prefix(CASE version = "a" -> <<Flour, Salt, Eggs>>
                  [] version = "b" -> <<Eggs, Flour, Salt>>
                  [] OTHER -> <<Salt, Eggs, Flour>>, k),
     instructions |->
         Prefix(CASE version = "a" -> <<"Mix", "Bake", "Serve">>
                  [] version = "b" -> <<"Stir", "Fry", "Serve">>
                  [] OTHER -> <<"Boil", "Serve", "Eat">>, k),
     tags |->
         Prefix(CASE version = "a" -> <<"easy", "soup", "warm">>
                  [] version = "b" -> <<"easy", "stew", "cold">>
                  [] OTHER -> <<"old", "easy", "plain">>, k)]

\* a recipe whose tag list names one tag twice
TagTwice == [RecipeOf("a", 1) EXCEPT !.tags = <<"easy", "easy">>]

\* the rows a complete Recipe.create(r) leaves in an empty database
StoredRecipe(r) ==
    [recipes |->
         {[id |-> r.id, title |-> r.title, description |-> r.description,
           category |-> r.category, prep_time |-> r.prepTime,
           cook_time |-> r.cookTime, additional_time |-> 0,
           servings |-> r.servings, image_url |-> r.imageUrl,
           source_url |-> "", notes |-> r.notes]},
     ingredients |->
         [i \in 1..Len(r.ingredients) |->
              [recipe_id |-> r.id, quantity |-> r.ingredients[i].quantity,
               unit |-> r.ingredients[i].unit, name |-> r.ingredients[i].name,
               sort_order |-> i - 1]],
     instructions |->
         [i \in 1..Len(r.instructions) |->
              [recipe_id |-> r.id, step_number |-> i,
               instruction |-> r.instructions[i]]],
     tags |-> {r.tags[i] : i \in 1..Len(r.tags)},
     recipe_tags |-> {<<r.id, r.tags[i]>> : i \in 1..Len(r.tags)}]

Idle == [op |-> "none", data |-> Null, pc |-> "idle", i |-> 0,
         result |-> Null]
Call(op, data, first) ==
    [op |-> op, data |-> data, pc |-> first, i |-> 1, result |-> Null]

\* the statement a call goes on with once the loops before loop k are done:
\* the first loop with something to insert, or the closing findById
RECURSIVE FirstLoop(_, _)
FirstLoop(data, k) ==
    IF k > 3 THEN "selectRecipe"
    ELSE IF k = 1 /\ Len(data.ingredients) > 0 THEN "insertIngredient"
    ELSE IF k = 2 /\ Len(data.instructions) > 0 THEN "insertInstruction"
    ELSE IF k = 3 /\ Len(data.tags) > 0 THEN "insertTag"
    ELSE FirstLoop(data, k + 1)

\* the call of caller c after one more statement
Goto(c, pcNext, iNext) ==
    [calls EXCEPT ![c].pc = pcNext, ![c].i = iNext]

\* rows of a table for one recipe, ORDER BY a column with values lo..hi
\* (rows with equal keys in rowid order)
RECURSIVE OrderBy(_, _, _, _)
OrderBy(rows, column, lo, hi) ==
    IF lo > hi THEN <<>>
    ELSE SelectSeq(rows, LAMBDA row : row[column] = lo)
             \o OrderBy(rows, column, lo + 1, hi)

ForRecipe(rows, id) == SelectSeq(rows, LAMBDA row : row.recipe_id = id)

DbInit ==
    /\ db \in {EmptyDb, StoredRecipe(RecipeOf("o", 1))}
    /\ calls \in
           {[c \in Callers |-> IF c = 1 THEN first ELSE second] :
                first \in {Call(op, r, IF op = "create" THEN "insertRecipe"
                                       ELSE "findExisting") :
                               op \in {"create", "update"},
                               r \in {RecipeOf("a", k) : k \in 0..MaxRows}
                                       \cup {TagTwice}},
                second \in {Idle}
                    \cup {Call(op, r, IF op = "create" THEN "insertRecipe"
                                      ELSE "findExisting") :
                              op \in {"create", "update"},
                              r \in {RecipeOf("b", k) : k \in 0..MaxRows}}}
    /\ url = NoUrl
    /\ pc = "idle"
    /\ html = NoPage
    /\ recipeData = Null
    /\ error = ""
    /\ fetches = 0
    /\ axiosError = "none"
    /\ importStatus = ""
    /\ text = <<>>
    /\ ocr = Null
    /\ ingredient = Null
    /\ targetSystem = ""
    /\ converted = Null
    /\ unitToken = <<>>
    /\ urlUnit = NoResult
    /\ ocrUnit = NoResult
    /\ category = NoCategory
    /\ mapped = NoResult
    /\ stored = <<>>
    /\ currentUnitSystem = ""
    /\ localStorage = NoItem
    /\ lastToggle = ""
    /\ view = Null
    /\ form = Null
    /\ updatedAt = 0
    /\ recipeAppData = <<>>
    /\ deleted = {}

\* create: INSERT INTO recipes (...); a stored id violates the primary key
InsertRecipe ==
    \E c \in Callers :
        LET r == calls[c].data IN
        /\ calls[c].pc = "insertRecipe"
        /\ IF \E row \in db.recipes : row.id = r.id
           THEN /\ calls' = Goto(c, "threw", 0)
                /\ UNCHANGED db
           ELSE /\ db' = [db EXCEPT !.recipes =
                             @ \cup StoredRecipe(r).recipes]
                /\ calls' = Goto(c, FirstLoop(r, 1), 1)
        /\ UNCHANGED <<urlVars, ocrVars, convVars, normVars, catVars,
                     uiVars, lsVars>>

\* update: const existing = await this.findById(id); null ends the call
FindExisting ==
    \E c \in Callers :
        /\ calls[c].pc = "findExisting"
        /\ calls' = IF \E row \in db.recipes : row.id = calls[c].data.id
                    THEN Goto(c, "updateRecipe", 0)
                    ELSE Goto(c, "returned", 0)
        /\ UNCHANGED <<db, urlVars, ocrVars, convVars, normVars, catVars,
                     uiVars, lsVars>>

\* update: UPDATE recipes SET ... WHERE id = ?
UpdateRecipe ==
    \E c \in Callers :
        LET r == calls[c].data IN
        /\ calls[c].pc = "updateRecipe"
        /\ db' = [db EXCEPT !.recipes =
                     {IF row.id = r.id
                      THEN [row EXCEPT !.title = r.title,
                                       !.description = r.description,
                                       !.category = r.category,
                                       !.prep_time = r.prepTime,
                                       !.cook_time = r.cookTime,
                                       !.servings = r.servings,
                                       !.image_url = r.imageUrl,
                                       !.notes = r.notes]
                      ELSE row : row \in @}]
        /\ calls' = Goto(c, "deleteIngredients", 0)
        /\ UNCHANGED <<urlVars, ocrVars, convVars, normVars, catVars,
                     uiVars, lsVars>>

\* update: DELETE FROM ingredients WHERE recipe_id = ?
DeleteIngredients ==
    \E c \in Callers :
        /\ calls[c].pc = "deleteIngredients"
        /\ db' = [db EXCEPT !.ingredients =
                     SelectSeq(@, LAMBDA row :
                                      row.recipe_id # calls[c].data.id)]
        /\ calls' = Goto(c, "deleteInstructions", 0)
        /\ UNCHANGED <<urlVars, ocrVars, convVars, normVars, catVars,
                     uiVars, lsVars>>

\* update: DELETE FROM instructions WHERE recipe_id = ?
DeleteInstructions ==
    \E c \in Callers :
        /\ calls[c].pc = "deleteInstructions"
        /\ db' = [db EXCEPT !.instructions =
                     SelectSeq(@, LAMBDA row :
                                      row.recipe_id # calls[c].data.id)]
        /\ calls' = Goto(c, "deleteTags", 0)
        /\ UNCHANGED <<urlVars, ocrVars, convVars, normVars, catVars,
                     uiVars, lsVars>>

\* update: DELETE FROM recipe_tags WHERE recipe_id = ?
DeleteTags ==
    \E c \in Callers :
        /\ calls[c].pc = "deleteTags"
        /\ db' = [db EXCEPT !.recipe_tags =
                     {link \in @ : link[1] # calls[c].data.id}]
        /\ calls' = Goto(c, FirstLoop(calls[c].data, 1), 1)
        /\ UNCHANGED <<urlVars, ocrVars, convVars, normVars, catVars,
                     uiVars, lsVars>>

\* INSERT INTO ingredients (...) VALUES (id, quantity || '', unit || '',
\* name, i)
InsertIngredient ==
    \E c \in Callers :
        LET r == calls[c].data
            i == calls[c].i
        IN
        /\ calls[c].pc = "insertIngredient"
        /\ db' = [db EXCEPT !.ingredients =
                     Append(@, StoredRecipe(r).ingredients[i])]
        /\ calls' = IF i < Len(r.ingredients)
                    THEN Goto(c, "insertIngredient", i + 1)
                    ELSE Goto(c, FirstLoop(r, 2), 1)
        /\ UNCHANGED <<urlVars, ocrVars, convVars, normVars, catVars,
                     uiVars, lsVars>>

\* INSERT INTO instructions (...) VALUES (id, i + 1, instructions[i])
InsertInstruction ==
    \E c \in Callers :
        LET r == calls[c].data
            i == calls[c].i
        IN
        /\ calls[c].pc = "insertInstruction"
        /\ db' = [db EXCEPT !.instructions =
                     Append(@, StoredRecipe(r).instructions[i])]
        /\ calls' = IF i < Len(r.instructions)
                    THEN Goto(c, "insertInstruction", i + 1)
                    ELSE Goto(c, FirstLoop(r, 3), 1)
        /\ UNCHANGED <<urlVars, ocrVars, convVars, normVars, catVars,
                     uiVars, lsVars>>

\* INSERT OR IGNORE INTO tags (name) VALUES (?)
InsertTag ==
    \E c \in Callers :
        /\ calls[c].pc = "insertTag"
        /\ db' = [db EXCEPT !.tags = @ \cup {calls[c].data.tags[calls[c].i]}]
        /\ calls' = Goto(c, "linkTag", calls[c].i)
        /\ UNCHANGED <<urlVars, ocrVars, convVars, normVars, catVars,
                     uiVars, lsVars>>

\* INSERT INTO recipe_tags (recipe_id, tag_id) SELECT ?, id FROM tags WHERE
\* name = ?; a link that is stored already violates the primary key
LinkTag ==
    \E c \in Callers :
        LET r == calls[c].data
            i == calls[c].i
        IN
        /\ calls[c].pc = "linkTag"
        /\ IF <<r.id, r.tags[i]>> \in db.recipe_tags
           THEN /\ calls' = Goto(c, "threw", 0)
                /\ UNCHANGED db
           ELSE /\ db' = [db EXCEPT !.recipe_tags =
                             @ \cup ({<<r.id, r.tags[i]>>}
                                       \cap ({r.id} \X db.tags))]
                /\ calls' = IF i < Len(r.tags)
                            THEN Goto(c, "insertTag", i + 1)
                            ELSE Goto(c, "selectRecipe", 0)
        /\ UNCHANGED <<urlVars, ocrVars, convVars, normVars, catVars,
                     uiVars, lsVars>>

\* findById: SELECT * FROM recipes WHERE id = ?; no row returns null
SelectRecipeRow ==
    \E c \in Callers :
        LET id == calls[c].data.id IN
        /\ calls[c].pc = "selectRecipe"
        /\ calls' =
               IF \E row \in db.recipes : row.id = id
               THEN LET row == CHOOSE row \in db.recipes : row.id = id
                    IN  [calls EXCEPT
                             ![c].pc = "selectIngredients",
                             ![c].result =
                                 [id |-> row.id, title |-> row.title,
                                  description |-> row.description,
                                  category |-> row.category,
                                  prepTime |-> row.prep_time,
                                  cookTime |-> row.cook_time,
                                  servings |-> row.servings,
                                  imageUrl |-> row.image_url,
                                  notes |-> row.notes,
                                  ingredients |-> <<>>,
                                  instructions |-> <<>>,
                                  tags |-> {}]]
               ELSE Goto(c, "returned", 0)
        /\ UNCHANGED <<db, urlVars, ocrVars, convVars, normVars, catVars,
                     uiVars, lsVars>>

\* _attachRelatedData: SELECT quantity, unit, name FROM ingredients WHERE
\* recipe_id = ? ORDER BY sort_order
SelectIngredients ==
    \E c \in Callers :
        LET rows == OrderBy(ForRecipe(db.ingredients, calls[c].data.id),
                            "sort_order", 0, Len(db.ingredients))
        IN
        /\ calls[c].pc = "selectIngredients"
        /\ calls' = [calls EXCEPT
                         ![c].pc = "selectInstructions",
                         ![c].result.ingredients =
                             [k \in 1..Len(rows) |->
                                  [quantity |-> rows[k].quantity,
                                   unit |-> rows[k].unit,
                                   name |-> rows[k].name]]]
        /\ UNCHANGED <<db, urlVars, ocrVars, convVars, normVars, catVars,
                     uiVars, lsVars>>

\* _attachRelatedData: SELECT instruction FROM instructions WHERE
\* recipe_id = ? ORDER BY step_number
SelectInstructions ==
    \E c \in Callers :
        LET rows == OrderBy(ForRecipe(db.instructions, calls[c].data.id),
                            "step_number", 1, Len(db.instructions) + 1)
        IN
        /\ calls[c].pc = "selectInstructions"
        /\ calls' = [calls EXCEPT
                         ![c].pc = "selectTags",
                         ![c].result.instructions =
                             [k \in 1..Len(rows) |-> rows[k].instruction]]
        /\ UNCHANGED <<db, urlVars, ocrVars, convVars, normVars, catVars,
                     uiVars, lsVars>>

\* _attachRelatedData: SELECT t.name FROM tags t JOIN recipe_tags rt ...;
\* the call returns the record
SelectTags ==
    \E c \in Callers :
        /\ calls[c].pc = "selectTags"
        /\ calls' = [calls EXCEPT
                         ![c].pc = "returned",
                         ![c].result.tags =
                             {link[2] : link \in
                                  {l \in db.recipe_tags :
                                       /\ l[1] = calls[c].data.id
                                       /\ l[2] \in db.tags}}]
        /\ UNCHANGED <<db, urlVars, ocrVars, convVars, normVars, catVars,
                     uiVars, lsVars>>

DbNext ==
    \/ InsertRecipe
    \/ FindExisting
    \/ UpdateRecipe
    \/ DeleteIngredients
    \/ DeleteInstructions
    \/ DeleteTags
    \/ InsertIngredient
    \/ InsertInstruction
    \/ InsertTag
    \/ LinkTag
    \/ SelectRecipeRow
    \/ SelectIngredients
    \/ SelectInstructions
    \/ SelectTags

SpecDb == DbInit /\ [][DbNext]_vars

\* Recipe.findById(id) run as one piece on the stored rows: the record it
\* returns, null when no recipe row has the id
findById(id) ==
    IF ~ \E row \in db.recipes : row.id = id THEN Null
    ELSE LET row == CHOOSE row \in db.recipes : row.id = id
             ings == OrderBy(ForRecipe(db.ingredients, id), "sort_order",
                             0, Len(db.ingredients))
             steps == OrderBy(ForRecipe(db.instructions, id), "step_number",
                              1, Len(db.instructions) + 1)
         IN  [id |-> row.id, title |-> row.title,
              description |-> row.description, category |-> row.category,
              prepTime |-> row.prep_time, cookTime |-> row.cook_time,
              servings |-> row.servings, imageUrl |-> row.image_url,
              notes |-> row.notes,
              ingredients |->
                  [k \in 1..Len(ings) |->
                       [quantity |-> ings[k].quantity, unit |-> ings[k].unit,
                        name |-> ings[k].name]],
              instructions |->
                  [k \in 1..Len(steps) |-> steps[k].instruction],
              tags |-> {link[2] : link \in
                            {l \in db.recipe_tags :
                                 l[1] = id /\ l[2] \in db.tags}}]

\* caller c is the only one with a call
Alone(c) == \A o \in Callers \ {c} : calls[o].op = "none"

TagSet(r) == {r.tags[i] : i \in 1..Len(r.tags)}

\* the record `got` read back has the listed scalar fields of r, and r's
\* ingredient sequence, instruction sequence and tag set
SameRecipe(r, got, fields) ==
    /\ \A f \in fields : f \in DOMAIN got /\ got[f] = r[f]
    /\ got.ingredients = r.ingredients
    /\ got.instructions = r.instructions
    /\ got.tags = TagSet(r)

\* a save of caller c that went through: its closing findById has returned
\* the stored recipe
Saved(c) ==
    /\ Alone(c)
    /\ calls[c].op \in {"create", "update"}
    /\ calls[c].pc = "returned"
    /\ calls[c].result # Null

\* C22: after a recipe r is saved (Recipe.create, or Recipe.update of an
\* existing id), Recipe.findById of its id returns the same title,
\* description, category, prepTime, cookTime, additionalTime, servings,
\* imageUrl, sourceUrl, ingredient sequence, instruction sequence and tag
\* set as r.
C22_SaveReadRoundTrip ==
    \A c \in Callers :
        Saved(c) =>
            /\ SameRecipe(calls[c].data, calls[c].result,
                          {"title", "description", "category", "prepTime",
                           "cookTime", "additionalTime", "servings",
                           "imageUrl", "sourceUrl"})
            /\ SameRecipe(calls[c].data, findById(calls[c].data.id),
                          {"title", "description", "category", "prepTime",
                           "cookTime", "additionalTime", "servings",
                           "imageUrl", "sourceUrl"})

\* C22, the part that holds: every field but additionalTime and sourceUrl
\* is read back as saved.
C22_ExceptDroppedFields ==
    \A c \in Callers :
        Saved(c) =>
            /\ SameRecipe(calls[c].data, calls[c].result,
                          {"title", "description", "category", "prepTime",
                           "cookTime", "servings", "imageUrl"})
            /\ SameRecipe(calls[c].data, findById(calls[c].data.id),
                          {"title", "description", "category", "prepTime",
                           "cookTime", "servings", "imageUrl"})
            /\ \A row \in db.recipes :
                   row.additional_time = 0 /\ row.source_url = ""

C22_Saved == \E c \in Callers : Saved(c) /\ calls[c].op = "create"

\* the rows stored for recipe id: none in recipes, ingredients,
\* instructions and recipe_tags
NothingStored(id) ==
    /\ ~ \E row \in db.recipes : row.id = id
    /\ ForRecipe(db.ingredients, id) = <<>>
    /\ ForRecipe(db.instructions, id) = <<>>
    /\ ~ \E link \in db.recipe_tags : link[1] = id

\* a Recipe.create of caller c, the only call, that failed on an id that was
\* not stored before (no row of the recipe stored at the start is there)
CreateFailed(c) ==
    /\ Alone(c)
    /\ calls[c].op = "create"
    /\ calls[c].pc = "threw"
    /\ ~ \E row \in db.recipes : row.title = RecipeOf("o", 1).title

\* C28: Recipe.create is all-or-nothing: when Recipe.create(r) fails (as
\* with a tag listed twice), no recipe row, ingredient, instruction or tag
\* link for r.id is stored afterwards and Recipe.findById(r.id) returns null.
C28_CreateAllOrNothing ==
    \A c \in Callers :
        CreateFailed(c) =>
            /\ NothingStored(calls[c].data.id)
            /\ findById(calls[c].data.id) = Null

\* a complete recipe as findById returns it for the saved record r
ViewOf(r) ==
    [id |-> r.id, title |-> r.title, description |-> r.description,
     category |-> r.category, prepTime |-> r.prepTime,
     cookTime |-> r.cookTime, servings |-> r.servings,
     imageUrl |-> r.imageUrl, notes |-> r.notes,
     ingredients |-> r.ingredients, instructions |-> r.instructions,
     tags |-> TagSet(r)]

\* two Recipe.update calls on the recipe stored at the start
TwoUpdates ==
    /\ \A c \in Callers : calls[c].op = "update"
    /\ \A c \in Callers : calls[c].pc # "returned" \/ calls[c].result # Null
    /\ db.recipes # {}

Completed(c) == calls[c].pc \in {"returned", "threw"}

\* C29: concurrent updates of the same recipe are serialisable: once two
\* Recipe.update(id, a) and Recipe.update(id, b) calls have completed, the
\* stored recipe is all a's or all b's, and a findById running in between
\* (the one that closes either update) returns the old recipe, a's or b's,
\* never a mixture and never a recipe without its ingredients.
C29_UpdatesSerialisable ==
    TwoUpdates =>
        /\ (\A c \in Callers : Completed(c)) =>
               findById(RecipeId) \in {ViewOf(calls[c].data) : c \in Callers}
        /\ \A c \in Callers :
               calls[c].pc = "returned" =>
                   calls[c].result \in
                       {ViewOf(calls[o].data) : o \in Callers}
                           \cup {ViewOf(RecipeOf("o", 1))}

\* C29, for one update at a time: the stored recipe is the one saved.
C29_OneUpdateAtATime ==
    \A c \in Callers :
        (Saved(c) /\ calls[c].op = "update") =>
            /\ findById(RecipeId) = ViewOf(calls[c].data)
            /\ calls[c].result = ViewOf(calls[c].data)

(***************************************************************************)
(* The page of the backend-backed app (frontend/scripts/app.js): the unit  *)
(* system toggle, the recipe detail modal and the edit form of one stored  *)
(* recipe.  The user opens, toggles, reloads and submits the form as it    *)
(* was filled in; a stored recipe has at least one named ingredient.       *)
(***************************************************************************)
MaxIngredients == 1
MaxSaves == 2

\* the <option> values of the unit dropdown, in document order
UnitOptions ==
    <<(<<"cups">>), (<<"tbsp">>), (<<"tsp">>), (<<"fl", " ", "oz">>),
      (<<"ml">>), (<<"g">>), (<<"kg">>), (<<"oz">>), (<<"lbs">>),
      (<<"unit">>)>>

OptionValues == {UnitOptions[i] : i \in 1..Len(UnitOptions)}

StoredUnits == OptionValues \cup {<<"l">>, <<"cup">>, <<"pinch">>, <<>>}

StoredIngredients ==
    {[quantity |-> StrQuantity(q), unit |-> u, name |-> <<"flour">>] :
         q \in {<<"2">>, <<"1", "/", "2">>}, u \in StoredUnits}

\* let currentUnitSystem = localStorage.getItem('preferredUnitSystem')
\*                           || 'metric'
LoadUnitSystemAlwaysMetric(item) == "metric"

LoadUnitSystem(item) ==
    IF item = NoItem \/ item = "" THEN "metric" ELSE item

\* the ingredient object after convertIngredient(ingredient, targetSystem)
\* has run on it, had the function written its result into its argument
IngredientConvertedInPlace(ing, target) ==
    IF convertIngredient(ing, target) = Null THEN ing
    ELSE [ing EXCEPT
              !.quantity = StrQuantity(convertIngredient(ing, target).quantity),
              !.unit = convertIngredient(ing, target).unit]

\* the ingredient object after convertIngredient(ingredient, targetSystem)
\* has run on it: the function builds a new object and assigns to no
\* property of its argument
IngredientAfterConvert(ing, target) == ing

\* one <li> of the detail modal: the converted quantity and unit when there
\* is a conversion, the ingredient's own otherwise
Shown(ing, target) ==
    LET result == convertIngredient(ing, target)
    IN  [quantity |-> IF result # Null THEN result.quantity
                      ELSE ing.quantity.chars,
         unit |-> IF result # Null THEN result.unit ELSE ing.unit,
         name |-> ing.name]

\* showRecipeDetail's rendering of the fetched ingredients
Detail(recipe, target) ==
    [ingredients |->
         [i \in 1..Len(recipe) |-> IngredientAfterConvert(recipe[i], target)],
     shown |-> [i \in 1..Len(recipe) |-> Shown(recipe[i], target)]]

\* the option the browser selects in a <select> none of whose options
\* carries `selected`: the first one
SelectedOptionOrBlank(unit) ==
    LET selectedUnit == IF unit = <<>> THEN <<"unit">> ELSE unit
    IN  IF selectedUnit \in OptionValues THEN selectedUnit ELSE <<>>

SelectedOption(unit) ==
    LET selectedUnit == IF unit = <<>> THEN <<"unit">> ELSE unit
    IN  IF selectedUnit \in OptionValues THEN selectedUnit
        ELSE Head(UnitOptions)

\* addIngredientField(ingredient): the row's three controls
addIngredientField(ing) ==
    [quantity |-> ing.quantity.chars,
     unit |-> SelectedOption(ing.unit),
     name |-> ing.name]

\* handleRecipeSubmit: the ingredients collected from the rows
RECURSIVE CollectIngredients(_)
CollectIngredients(rows) ==
    IF rows = <<>> THEN <<>>
    ELSE IF Trim(Head(rows).name) # <<>>
    THEN <<[quantity |-> StrQuantity(Trim(Head(rows).quantity)),
            unit |-> Trim(Head(rows).unit),
            name |-> Trim(Head(rows).name)]>>
             \o CollectIngredients(Tail(rows))
    ELSE CollectIngredients(Tail(rows))

UiInit ==
    /\ stored \in SeqsUpTo(StoredIngredients, MaxIngredients) \ {<<>>}
    /\ localStorage = NoItem
    /\ currentUnitSystem = "metric"
    /\ lastToggle = ""
    /\ view = Null
    /\ form = Null
    /\ url = NoUrl
    /\ pc = "idle"
    /\ html = NoPage
    /\ recipeData = Null
    /\ error = ""
    /\ fetches = 0
    /\ axiosError = "none"
    /\ importStatus = ""
    /\ text = <<>>
    /\ ocr = Null
    /\ ingredient = Null
    /\ targetSystem = ""
    /\ converted = Null
    /\ unitToken = <<>>
    /\ urlUnit = NoResult
    /\ ocrUnit = NoResult
    /\ category = NoCategory
    /\ mapped = NoResult
    /\ db = EmptyDb
    /\ calls = NoCalls
    /\ updatedAt = 0
    /\ recipeAppData = <<>>
    /\ deleted = {}

\* the page is loaded again: the script runs from its first line, the modals
\* start hidden
PageReload ==
    /\ currentUnitSystem' = LoadUnitSystem(localStorage)
    /\ view' = Null
    /\ form' = Null
    /\ \/ view # Null
       \/ form # Null
       \/ currentUnitSystem # LoadUnitSystem(localStorage)
    /\ UNCHANGED <<stored, updatedAt, localStorage, lastToggle>>
    /\ UNCHANGED <<urlVars, ocrVars, convVars, normVars, catVars, dbVars,
                   lsVars>>

\* showRecipeDetail(recipeId) from the list: fetches the recipe and renders
\* it in the current unit system
ShowRecipeDetail ==
    /\ view = Null
    /\ form = Null
    /\ view' = Detail(stored, currentUnitSystem)
    /\ UNCHANGED <<stored, updatedAt, currentUnitSystem, localStorage,
                   lastToggle, form>>
    /\ UNCHANGED <<urlVars, ocrVars, convVars, normVars, catVars, dbVars,
                   lsVars>>

\* a click on #metricBtn / #imperialBtn of the open detail modal:
\* handleUnitSystemChange(system), which re-renders the modal
HandleUnitSystemChange ==
    \E system \in {"metric", "imperial"} :
        /\ view # Null
        /\ currentUnitSystem' = system
        /\ localStorage' = system
        /\ lastToggle' = system
        /\ view' = Detail(stored, system)
        /\ UNCHANGED <<stored, updatedAt, form>>
        /\ UNCHANGED <<urlVars, ocrVars, convVars, normVars, catVars, dbVars,
                   lsVars>>

\* showEditRecipeForm(recipeId): closes the modals, fetches the recipe and
\* adds one row per ingredient
ShowEditRecipeForm ==
    /\ form = Null
    /\ view' = Null
    /\ form' = [rows |->
                    [i \in 1..Len(stored) |-> addIngredientField(stored[i])]]
    /\ UNCHANGED <<stored, updatedAt, currentUnitSystem, localStorage,
                   lastToggle>>
    /\ UNCHANGED <<urlVars, ocrVars, convVars, normVars, catVars, dbVars,
                   lsVars>>

\* handleRecipeSubmit on the form as it was opened: updateRecipe with the
\* collected rows, then closeAllModals
HandleRecipeSubmit ==
    /\ form # Null
    /\ CollectIngredients(form.rows) # <<>>
    /\ updatedAt < MaxSaves
    /\ stored' = CollectIngredients(form.rows)
    /\ updatedAt' = updatedAt + 1
    /\ form' = Null
    /\ view' = Null
    /\ UNCHANGED <<currentUnitSystem, localStorage, lastToggle>>
    /\ UNCHANGED <<urlVars, ocrVars, convVars, normVars, catVars, dbVars,
                   lsVars>>

UiNext ==
    \/ PageReload
    \/ ShowRecipeDetail
    \/ HandleUnitSystemChange
    \/ ShowEditRecipeForm
    \/ HandleRecipeSubmit

SpecUi == UiInit /\ [][UiNext]_vars

\* the form shows the recipe as stored: no ingredient's unit differs
UnitsKept(rows) ==
    /\ Len(rows) = Len(stored)
    /\ \A i \in 1..Len(stored) : rows[i].unit = stored[i].unit

\* C23: for every stored recipe and every ingredient of it, whatever unit it
\* holds, the edit form pre-selects the stored unit in the ingredient's unit
\* dropdown, so that saving the untouched form leaves the stored unit
\* unchanged.
C23_StoredUnitPreselected ==
    form # Null =>
        UnitsKept(form.rows) /\ UnitsKept(CollectIngredients(form.rows))

\* C23, for the units the dropdown offers: the stored unit is pre-selected
\* and saved back.
C23_ExceptUnlistedUnits ==
    (form # Null /\ \A i \in 1..Len(stored) : stored[i].unit \in OptionValues)
        => UnitsKept(form.rows) /\ UnitsKept(CollectIngredients(form.rows))

\* C24: after any sequence of unit-system toggles and page reloads the
\* active unit system is the one chosen by the most recent toggle, 'metric'
\* if there has been none; after every toggle the localStorage item
\* 'preferredUnitSystem' holds the chosen system.
C24_ActiveSystemIsLastToggle ==
    /\ currentUnitSystem = IF lastToggle = "" THEN "metric" ELSE lastToggle
    /\ localStorage = IF lastToggle = "" THEN NoItem ELSE lastToggle

\* the page was loaded again after a toggle to imperial
C24_Witness ==
    /\ lastToggle = "imperial"
    /\ currentUnitSystem = "imperial"
    /\ localStorage = "imperial"
    /\ view = Null

MaxRecipes == 4

SampleIds == <<"sample_1", "sample_2", "sample_3">>
UserIds == {"recipe_1"}
RecipeIds == {SampleIds[i] : i \in 1..Len(SampleIds)} \cup UserIds
Titles == {"first", "second"}

\* the sampleRecipes of initializeStorage
sampleRecipes == [i \in 1..Len(SampleIds) |-> [id |-> SampleIds[i],
                                                title |-> "first"]]

\* initializeStorage that leaves an empty list empty
initializeStorageNoSamples(existing) == existing

\* initializeStorage: the stored list afterwards
initializeStorage(existing) ==
    IF Len(existing) = 0 THEN sampleRecipes ELSE existing

HasId(recipes, id) == \E i \in 1..Len(recipes) : recipes[i].id = id

\* recipes.filter(recipe => recipe.id !== id)
WithoutId(recipes, id) == SelectSeq(recipes, LAMBDA recipe : recipe.id # id)

StorageInit ==
    /\ recipeAppData = initializeStorage(<<>>)
    /\ deleted = {}
    /\ url = NoUrl
    /\ pc = "idle"
    /\ html = NoPage
    /\ recipeData = Null
    /\ error = ""
    /\ fetches = 0
    /\ axiosError = "none"
    /\ importStatus = ""
    /\ text = <<>>
    /\ ocr = Null
    /\ ingredient = Null
    /\ targetSystem = ""
    /\ converted = Null
    /\ unitToken = <<>>
    /\ urlUnit = NoResult
    /\ ocrUnit = NoResult
    /\ category = NoCategory
    /\ mapped = NoResult
    /\ db = EmptyDb
    /\ calls = NoCalls
    /\ stored = <<>>
    /\ currentUnitSystem = ""
    /\ localStorage = NoItem
    /\ lastToggle = ""
    /\ view = Null
    /\ form = Null
    /\ updatedAt = 0

\* the page is loaded again: initializeStorage() on module load
ReloadPage ==
    /\ recipeAppData' = initializeStorage(recipeAppData)
    /\ UNCHANGED deleted
    /\ UNCHANGED <<urlVars, ocrVars, convVars, normVars, catVars, dbVars,
                   uiVars>>

\* addRecipe(recipe) from the form: the recipe is pushed
AddRecipe ==
    \E id \in UserIds, title \in Titles :
        /\ Len(recipeAppData) < MaxRecipes
        /\ recipeAppData' =
               Append(recipeAppData, [id |-> id, title |-> title])
        /\ deleted' = deleted \ {id}
        /\ UNCHANGED <<urlVars, ocrVars, convVars, normVars, catVars, dbVars,
                       uiVars>>

\* updateRecipe(id, updatedRecipe): the first recipe with the id is replaced;
\* false when there is none
UpdateStoredRecipe ==
    \E id \in RecipeIds, title \in Titles :
        /\ HasId(recipeAppData, id)
        /\ LET index == CHOOSE i \in 1..Len(recipeAppData) :
                            /\ recipeAppData[i].id = id
                            /\ \A j \in 1..(i - 1) : recipeAppData[j].id # id
           IN  recipeAppData' =
                   [recipeAppData EXCEPT
                        ![index] = [id |-> id, title |-> title]]
        /\ UNCHANGED deleted
        /\ UNCHANGED <<urlVars, ocrVars, convVars, normVars, catVars, dbVars,
                       uiVars>>

\* deleteRecipe(id) returning true: every recipe with the id is filtered out
DeleteRecipe ==
    \E id \in RecipeIds :
        /\ Len(WithoutId(recipeAppData, id)) # Len(recipeAppData)
        /\ recipeAppData' = WithoutId(recipeAppData, id)
        /\ deleted' = deleted \cup {id}
        /\ UNCHANGED <<urlVars, ocrVars, convVars, normVars, catVars, dbVars,
                       uiVars>>

StorageNext ==
    \/ ReloadPage
    \/ AddRecipe
    \/ UpdateStoredRecipe
    \/ DeleteRecipe

SpecStorage == StorageInit /\ [][StorageNext]_vars

\* C26: a deleted recipe is permanently removed: after deleteRecipe(id)
\* succeeded, no later operations that do not add the recipe again (deleting
\* or updating other recipes, reloading the page and re-initialising
\* storage) make a recipe with that id appear in the stored list.
C26_DeletedStaysDeleted ==
    \A id \in deleted : ~ HasId(recipeAppData, id)

\* C26, for the recipes the user added: once deleted they stay deleted.
C26_ExceptSampleRecipes ==
    \A id \in deleted \cap UserIds : ~ HasId(recipeAppData, id)

(***************************************************************************)
(* The sections of an OCR text.                                            *)
(***************************************************************************)
\* the text has an ingredients heading and an instructions-type heading
HasBothHeadings(txt) ==
    /\ FindHeading(TrimLines(txt), IngredientsHeadings, 1) # 0
    /\ FindHeading(TrimLines(txt), InstructionsHeadings, 1) # 0

\* the two sections are the lines the returned lists are made of: one
\* ingredient per line of the ingredient section, and instructions exactly
\* when the instruction section has a line
SectionsAccountForEntries ==
    (ocr # Null /\ ocr # Thrown) =>
        /\ Len(ocr.ingredients)
               = Cardinality(IngredientSectionLines(TrimText(text)))
        /\ Len(ocr.instructions)
               <= Cardinality(InstructionSectionLines(TrimText(text)))
        /\ (ocr.instructions = <<>>)
               <=> (InstructionSectionLines(TrimText(text)) = {})

\* C30: for every OCR text with both an Ingredients heading and an
\* Instructions-type heading, in either order, the ingredient section and
\* the instruction section are disjoint: no line of the text contributes
\* both to a returned ingredient and to a returned instruction.
C30_SectionsDisjoint ==
    (ocr # Null /\ ocr # Thrown /\ HasBothHeadings(TrimText(text))) =>
        IngredientSectionLines(TrimText(text))
            \cap InstructionSectionLines(TrimText(text)) = {}

\* C30, when the first instructions-type heading comes after the
\* ingredients heading
C30_WhenIngredientsFirst ==
    (/\ ocr # Null
     /\ ocr # Thrown
     /\ HasBothHeadings(TrimText(text))
     /\ FindHeading(TrimLines(TrimText(text)), IngredientsHeadings, 1)
            < FindHeading(TrimLines(TrimText(text)), InstructionsHeadings, 1))
        => C30_SectionsDisjoint

====
